---- MODULE Spec2Model ----
(***************************************************************************)
(* Tracking, interpolation and referee-disambiguation pipeline of          *)
(* FREE-Football-Analysis: process_video (main.py), Tracker                *)
(* (trackers/tracker.py) and RefereeFilter (referee_filter/                *)
(* referee_filter.py).                                                     *)
(*                                                                         *)
(* Conventions of the model                                                *)
(*  - Python lists are sequences; list index k is sequence index k + 1.    *)
(*  - Python dicts are functions; {} is the function with empty domain.    *)
(*  - An entity record is a function from field names ("bbox",             *)
(*    "position", "team_colour") to values; an absent key is absent from   *)
(*    its DOMAIN.                                                          *)
(*  - Confidences are in hundredths (0.30 is 30, 0.15 is 15).              *)
(*  - calculate_iou returns the pair <<numerator, denominator>> of the     *)
(*    quotient the code computes; a threshold t/10 is the integer t.       *)
(*  - A frame is an image of one uniform colour (pixels) together with     *)
(*    what the detection model sees in it (scene).                         *)
(***************************************************************************)
EXTENDS Integers, Sequences, FiniteSets, TLC

\* ------------------------------------------------------------------ bounds

\* Largest number of frames of an input video.
MaxFrames == 3

\* ------------------------------------------------------- program constants

DetectorConf == 15         \* conf=0.15 of model.predict
BallConf == 30             \* frame_detection[2] >= 0.3
DefaultBatchSize == 20     \* batch_size default of detect_frames
IouThresholdTenths == 3    \* RefereeFilter(iou_threshold=0.3)
ColorTolerance == 40       \* RefereeFilter(color_tolerance=40)
MinColorSamples == 3       \* len(colors) >= 3
FrequencyTenths == 6       \* referee_color_count / len(colors) > 0.6
BallId == 1                \* tracks["ball"][frame_num][1]

\* ----------------------------------------------------------------- helpers

Max(a, b) == IF a >= b THEN a ELSE b

Min(a, b) == IF a <= b THEN a ELSE b

EmptyDict == [k \in {} |-> {}]

\* d[k] = v
DictPut(d, k, v) == [x \in (DOMAIN d) \cup {k} |-> IF x = k THEN v ELSE d[x]]

\* d without the keys of ks (del d[k] for every k in ks)
DictDrop(d, ks) == [x \in (DOMAIN d) \ ks |-> d[x]]

\* A per-frame entry of the track store that is not a dict (None, a list). It is kept
\* apart from every dict by its key 0, a key no tracker id takes.
NotAMapping == [k \in {0} |-> [type |-> "list"]]

\* isinstance(x, dict)
isinstance_dict(x) == 0 \notin DOMAIN x

\* ------------------------------------------------------------ class names

\* detection.names of the model: class id -> class name
cls_names == [i \in 0..3 |->
    CASE i = 0 -> "ball" [] i = 1 -> "goalkeeper" [] i = 2 -> "player" [] OTHER -> "referee"]

\* {v: k for k, v in cls_names.items()}
cls_names_switched == [n \in {cls_names[i] : i \in DOMAIN cls_names} |->
    CHOOSE i \in DOMAIN cls_names : cls_names[i] = n]

\* ------------------------------------------------------------------ inputs

BoxP == <<0, 0, 20, 20>>       \* a person
BoxR == <<0, 0, 20, 10>>       \* IoU with BoxP = 200/400 = 0.5
BoxQ == <<30, 0, 40, 20>>      \* a person away from BoxP and BoxR
BoxA == <<0, 0, 12, 12>>       \* a ball
BoxB == <<120, 0, 132, 12>>    \* a ball elsewhere

White == <<255, 255, 255>>
Black == <<0, 0, 0>>

\* frame.shape: <<height, width>>
FrameShape == <<40, 160>>

Det(name, bbox, conf) ==
    [bbox |-> bbox, class_id |-> cls_names_switched[name], confidence |-> conf]

\* The frames a video is made of.
FrameMenu == {
    [pixels |-> White, scene |-> <<>>],
    [pixels |-> White, scene |-> <<Det("player", BoxP, 80), Det("ball", BoxA, 30)>>],
    [pixels |-> Black, scene |-> <<Det("player", BoxQ, 80)>>],
    [pixels |-> White, scene |-> <<Det("goalkeeper", BoxP, 80), Det("referee", BoxR, 80)>>],
    [pixels |-> White, scene |-> <<Det("ball", BoxA, 29)>>],
    [pixels |-> White, scene |-> <<Det("ball", BoxA, 30), Det("ball", BoxB, 30)>>]
  }

\* Tracker ids the online tracker hands out.
TrackerIds == {1, 2}

VARIABLES
    frames,                \* the decoded video (read_video)
    pc,                    \* position of process_video
    calls,                 \* the pipeline stages process_video has invoked, in order
    detections,            \* result of detect_frames
    frame_num,             \* loop index of get_object_tracks
    tracker_seen,          \* what ByteTrack.update_with_detections received, per call
    detections_with_tracks,\* result of the last update_with_detections
    players, referees, ball,   \* tracks["players"], tracks["referees"], tracks["ball"]
    interpolation_tracker, \* Tracker.interpolation_tracker
    filtered_by_overlap,   \* Stage A result inside filter_referees
    filtered_by_color,     \* Stage B result inside filter_referees
    unfiltered_players,    \* tracks["players"] as passed to filter_referees
    fault,                 \* what fails in the environment of this run, "none" if nothing
    call,                  \* the function under call and its arguments
    outcome,               \* the locals and the result of the function under call
    tags,                  \* TaggingEngine.tags
    next_tag_id            \* TaggingEngine.next_tag_id

vars == <<frames, pc, calls, detections, frame_num, tracker_seen, detections_with_tracks,
          players, referees, ball, interpolation_tracker, filtered_by_overlap,
          filtered_by_color, unfiltered_players, fault, call, outcome, tags,
               next_tag_id>>

\* self.interpolation_tracker = None
NoFlags == <<>>

\* ------------------------------------------------------ detector (detect_frames)

\* model.predict(conf=0.15) on one frame: what the model sees, cut at the detector threshold
Predict(frame) == SelectSeq(frame.scene, LAMBDA d : d.confidence >= DetectorConf)

\* PredictBatch losing the last frame of every batch
PredictBatchShort(fs, i, batch_size) ==
    [k \in 1..(Min(i + batch_size, Len(fs)) - i - 1) |-> Predict(fs[i + k])]

\* model.predict(source=frames[i:i+batch_size]) for the batch starting at list index i
PredictBatch(fs, i, batch_size) ==
    [k \in 1..(Min(i + batch_size, Len(fs)) - i) |-> Predict(fs[i + k])]

RECURSIVE DetectFrom(_, _, _)
\* for i in range(i, len(frames), batch_size): detections += detections_batch
DetectFrom(fs, i, batch_size) ==
    IF i >= Len(fs) THEN <<>>
    ELSE PredictBatch(fs, i, batch_size) \o DetectFrom(fs, i + batch_size, batch_size)

detect_frames(fs) == DetectFrom(fs, 0, DefaultBatchSize)

\* ------------------------------------------------- identity tracker (per frame)

\* EnumerateAt walking the list from its end
EnumerateReversed(dets, n) == dets[Len(dets) - n]

\* enumerate(detections): the detection paired with loop index frame_num
EnumerateAt(dets, n) == dets[n + 1]

\* RemapGoalkeepers without the class correction
RemapNothing(dets) == dets

\* convert goalkeeper to player, on the class ids of one frame's detections
RemapGoalkeepers(dets) ==
    [i \in DOMAIN dets |->
        IF cls_names[dets[i].class_id] = "goalkeeper"
        THEN [dets[i] EXCEPT !.class_id = cls_names_switched["player"]]
        ELSE dets[i]]

\* What the online tracker (supervision's ByteTrack, an external library) may answer for
\* n detections: each detection is either not emitted (0) or emitted under a tracker id,
\* no id twice in one frame.
TrackerAnswers(n) ==
    {a \in [1..n -> TrackerIds \cup {0}] :
        \A i, j \in 1..n : (i # j /\ a[i] # 0) => a[i] # a[j]}

RECURSIVE Emitted(_, _, _)
\* the detections the tracker emits, in input order, each with its tracker id
Emitted(dets, a, i) ==
    IF i > Len(dets) THEN <<>>
    ELSE (IF a[i] = 0 THEN <<>>
          ELSE <<[bbox |-> dets[i].bbox, class_id |-> dets[i].class_id,
                  confidence |-> dets[i].confidence, tracker_id |-> a[i]]>>)
         \o Emitted(dets, a, i + 1)

RECURSIVE PartitionInto(_, _, _, _)
\* for frame_detection in detections_with_tracks: if class_id == <name>: d[tracker_id] = {"bbox": bbox}
PartitionInto(d, tracked, name, i) ==
    IF i > Len(tracked) THEN d
    ELSE PartitionInto(
            IF tracked[i].class_id = cls_names_switched[name]
            THEN DictPut(d, tracked[i].tracker_id, [bbox |-> tracked[i].bbox])
            ELSE d,
            tracked, name, i + 1)

\* BallKept with a cut-off that excludes 0.30 itself
BallKeptStrict(d) == d.class_id = cls_names_switched["ball"] /\ d.confidence > BallConf

\* class_id == ball and confidence >= 0.3
BallKept(d) == d.class_id = cls_names_switched["ball"] /\ d.confidence >= BallConf

RECURSIVE BallIntoByIndex(_, _, _)
\* BallInto keying each kept ball by its place in the frame's detections
BallIntoByIndex(d, dets, i) ==
    IF i > Len(dets) THEN d
    ELSE BallIntoByIndex(IF BallKept(dets[i]) THEN DictPut(d, i, [bbox |-> dets[i].bbox]) ELSE d,
                         dets, i + 1)

RECURSIVE BallInto(_, _, _)
\* for frame_detection in detection_supervision: if ball and conf >= 0.3: d[1] = {"bbox": bbox}
BallInto(d, dets, i) ==
    IF i > Len(dets) THEN d
    ELSE BallInto(IF BallKept(dets[i]) THEN DictPut(d, BallId, [bbox |-> dets[i].bbox]) ELSE d,
                  dets, i + 1)

\* --------------------------------------------------------- position deriver

\* utils.get_center_of_bbox
get_center_of_bbox(bbox) == <<(bbox[1] + bbox[3]) \div 2, (bbox[2] + bbox[4]) \div 2>>

\* utils.get_foot_position
get_foot_position(bbox) == <<(bbox[1] + bbox[3]) \div 2, bbox[4]>>

\* AddPositions that annotates players and ball and skips referees
AddPositionsNoReferees(object, object_tracks) ==
    [f \in DOMAIN object_tracks |->
        [tracker_id \in DOMAIN object_tracks[f] |->
            IF object = "referees" THEN object_tracks[f][tracker_id]
            ELSE DictPut(object_tracks[f][tracker_id], "position",
                         IF object = "ball"
                         THEN get_center_of_bbox(object_tracks[f][tracker_id].bbox)
                         ELSE get_foot_position(object_tracks[f][tracker_id].bbox))]]

\* the inner loops of add_position_to_tracks for one collection
AddPositions(object, object_tracks) ==
    [f \in DOMAIN object_tracks |->
        [tracker_id \in DOMAIN object_tracks[f] |->
            DictPut(object_tracks[f][tracker_id], "position",
                    IF object = "ball"
                    THEN get_center_of_bbox(object_tracks[f][tracker_id].bbox)
                    ELSE get_foot_position(object_tracks[f][tracker_id].bbox))]]

\* ------------------------------------------------------------ referee filter

\* RefereeFilter.referee_colors
referee_colors == <<<<0, 0, 0>>, <<255, 255, 0>>, <<255, 0, 0>>, <<0, 0, 255>>, <<255, 140, 0>>>>

Sq(x) == x * x

\* calculate_iou dividing by the area of the first box instead of the union
iou_over_first(bbox1, bbox2) ==
    LET x1_i == Max(bbox1[1], bbox2[1])
        y1_i == Max(bbox1[2], bbox2[2])
        x2_i == Min(bbox1[3], bbox2[3])
        y2_i == Min(bbox1[4], bbox2[4])
        intersection == (x2_i - x1_i) * (y2_i - y1_i)
        area1 == (bbox1[3] - bbox1[1]) * (bbox1[4] - bbox1[2])
    IN  IF x2_i <= x1_i \/ y2_i <= y1_i THEN <<0, 1>>
        ELSE IF area1 = 0 THEN <<0, 1>>
        ELSE <<intersection, area1>>

\* calculate_iou with the intersection counted twice in the union
iou_over_sum(bbox1, bbox2) ==
    LET x1_i == Max(bbox1[1], bbox2[1])
        y1_i == Max(bbox1[2], bbox2[2])
        x2_i == Min(bbox1[3], bbox2[3])
        y2_i == Min(bbox1[4], bbox2[4])
        intersection == (x2_i - x1_i) * (y2_i - y1_i)
        area1 == (bbox1[3] - bbox1[1]) * (bbox1[4] - bbox1[2])
        area2 == (bbox2[3] - bbox2[1]) * (bbox2[4] - bbox2[2])
        union == area1 + area2
    IN  IF x2_i <= x1_i \/ y2_i <= y1_i THEN <<0, 1>>
        ELSE IF union = 0 THEN <<0, 1>>
        ELSE <<intersection, union>>

\* calculate_iou without its two early returns: the ratio is formed whatever the boxes
iou_unguarded(bbox1, bbox2) ==
    LET x1_i == Max(bbox1[1], bbox2[1])
        y1_i == Max(bbox1[2], bbox2[2])
        x2_i == Min(bbox1[3], bbox2[3])
        y2_i == Min(bbox1[4], bbox2[4])
        intersection == (x2_i - x1_i) * (y2_i - y1_i)
        area1 == (bbox1[3] - bbox1[1]) * (bbox1[4] - bbox1[2])
        area2 == (bbox2[3] - bbox2[1]) * (bbox2[4] - bbox2[2])
        union == area1 + area2 - intersection
    IN  <<intersection, union>>

\* RefereeFilter.calculate_iou, as <<numerator, denominator>>
calculate_iou(bbox1, bbox2) ==
    LET x1_i == Max(bbox1[1], bbox2[1])
        y1_i == Max(bbox1[2], bbox2[2])
        x2_i == Min(bbox1[3], bbox2[3])
        y2_i == Min(bbox1[4], bbox2[4])
        intersection == (x2_i - x1_i) * (y2_i - y1_i)
        area1 == (bbox1[3] - bbox1[1]) * (bbox1[4] - bbox1[2])
        area2 == (bbox2[3] - bbox2[1]) * (bbox2[4] - bbox2[2])
        union == area1 + area2 - intersection
    IN  IF x2_i <= x1_i \/ y2_i <= y1_i THEN <<0, 1>>
        ELSE IF union = 0 THEN <<0, 1>>
        ELSE <<intersection, union>>

\* IouExceeds with a threshold that an IoU of exactly 0.30 reaches
IouReaches(iou, tenths) == iou[1] * 10 >= tenths * iou[2]

\* iou > self.iou_threshold
IouExceeds(iou, tenths) == iou[1] * 10 > tenths * iou[2]

\* is_referee_color with a tolerance that includes the distance 40 itself
is_referee_color_inclusive(color) ==
    /\ Len(color) = 3
    /\ \E k \in DOMAIN referee_colors :
          Sq(color[1] - referee_colors[k][1]) + Sq(color[2] - referee_colors[k][2])
            + Sq(color[3] - referee_colors[k][3]) <= Sq(ColorTolerance)

\* RefereeFilter.is_referee_color: sqrt(squared distance) < tolerance for some palette colour
is_referee_color(color) ==
    /\ Len(color) = 3
    /\ \E k \in DOMAIN referee_colors :
          Sq(color[1] - referee_colors[k][1]) + Sq(color[2] - referee_colors[k][2])
            + Sq(color[3] - referee_colors[k][3]) < Sq(ColorTolerance)

\* RefereeFilter.filter_by_referee_tracks
filter_by_referee_tracks(ps, rs) ==
    {player_id \in UNION {DOMAIN ps[f] : f \in DOMAIN ps} :
        \E f \in DOMAIN ps :
            LET frame_referees == IF f <= Len(rs) THEN rs[f] ELSE EmptyDict
            IN  /\ isinstance_dict(ps[f])
                /\ isinstance_dict(frame_referees)
                /\ player_id \in DOMAIN ps[f]
                /\ "bbox" \in DOMAIN ps[f][player_id]
                /\ \E referee_id \in DOMAIN frame_referees :
                      /\ "bbox" \in DOMAIN frame_referees[referee_id]
                      /\ IouExceeds(calculate_iou(ps[f][player_id].bbox,
                                                  frame_referees[referee_id].bbox),
                                    IouThresholdTenths)}

\* The shirt sample of filter_by_color_analysis: <<mean colour>> of the top half of the
\* bbox clipped to the frame, or <<>> when nothing is sampled.
SampleShirt(frame, bbox) ==
    LET x1 == Max(0, Min(bbox[1], FrameShape[2]))
        y1 == Max(0, Min(bbox[2], FrameShape[1]))
        x2 == Max(0, Min(bbox[3], FrameShape[2]))
        y2 == Max(0, Min(bbox[4], FrameShape[1]))
    IN  IF x2 > x1 /\ y2 > y1 /\ (y1 + (y2 - y1) \div 2) > y1
        THEN <<frame.pixels>>
        ELSE <<>>

\* ColorFrame that records a matching sample in player_colors without adding the id to
\* filtered_ids: the decision is left to the closing loop
ColorFrameRecordOnly(acc, frame, frame_players, check) ==
    LET considered == {p \in DOMAIN frame_players :
                          /\ (check = <<>> \/ p \in check[1])
                          /\ "bbox" \in DOMAIN frame_players[p]}
        bySample == {p \in considered :
                      LET s == SampleShirt(frame, frame_players[p].bbox)
                      IN  s # <<>> /\ is_referee_color(s[1])}
    IN  [ids |-> acc.ids,
         colors |-> [p \in (DOMAIN acc.colors) \cup bySample |->
                        (IF p \in DOMAIN acc.colors THEN acc.colors[p] ELSE <<>>)
                        \o (IF p \in bySample THEN <<frame.pixels>> ELSE <<>>)]]

\* One iteration of the frame loop of filter_by_color_analysis. acc.ids is filtered_ids,
\* acc.colors is player_colors; check is <<>> for None and <<set>> for a set of ids.
ColorFrame(acc, frame, frame_players, check) ==
    LET considered == {p \in DOMAIN frame_players :
                          /\ (check = <<>> \/ p \in check[1])
                          /\ "bbox" \in DOMAIN frame_players[p]}
        byTeam == {p \in considered :
                      /\ "team_colour" \in DOMAIN frame_players[p]
                      /\ is_referee_color(frame_players[p].team_colour)}
        bySample == {p \in considered \ byTeam :
                      LET s == SampleShirt(frame, frame_players[p].bbox)
                      IN  s # <<>> /\ is_referee_color(s[1])}
    IN  IF ~isinstance_dict(frame_players) THEN acc
        ELSE [ids |-> acc.ids \cup byTeam \cup bySample,
              colors |-> [p \in (DOMAIN acc.colors) \cup bySample |->
                             (IF p \in DOMAIN acc.colors THEN acc.colors[p] ELSE <<>>)
                             \o (IF p \in bySample THEN <<frame.pixels>> ELSE <<>>)]]

RECURSIVE ColorFrames(_, _, _, _, _)
\* for frame_num, frame_players in enumerate(tracks["players"]): break past the last frame
ColorFrames(acc, fs, ps, check, f) ==
    IF f > Len(ps) \/ f > Len(fs) THEN acc
    ELSE ColorFrames(ColorFrame(acc, fs[f], ps[f], check), fs, ps, check, f + 1)

\* The closing loop of filter_by_color_analysis over player_colors: the ids with at least
\* three recorded colours of which more than 60% are referee colours.
ConsistentIds(player_colors) ==
    {p \in DOMAIN player_colors :
        /\ Len(player_colors[p]) >= MinColorSamples
        /\ 10 * Cardinality({i \in DOMAIN player_colors[p] : is_referee_color(player_colors[p][i])})
             > FrequencyTenths * Len(player_colors[p])}

\* RefereeFilter.filter_by_color_analysis
filter_by_color_analysis(fs, ps, check) ==
    LET acc == ColorFrames([ids |-> {}, colors |-> EmptyDict], fs, ps, check, 1)
    IN  acc.ids \cup ConsistentIds(acc.colors)

\* the ids filter_referees passes to Stage B: the Stage A result
ColorCheckSet(overlap) == <<overlap>>

\* Purge that stops after the first frame
PurgeFirstFrame(ps, all_filtered_ids) ==
    [f \in DOMAIN ps |-> IF f = 1 THEN DictDrop(ps[f], all_filtered_ids) ELSE ps[f]]

\* Purge with the membership test inverted
PurgeInverted(ps, all_filtered_ids) ==
    IF all_filtered_ids # {}
    THEN [f \in DOMAIN ps |-> DictDrop(ps[f], (DOMAIN ps[f]) \ all_filtered_ids)]
    ELSE ps

\* Purge that deletes the smallest flagged id only
PurgeOneId(ps, all_filtered_ids) ==
    IF all_filtered_ids # {}
    THEN [f \in DOMAIN ps |->
            IF isinstance_dict(ps[f])
            THEN DictDrop(ps[f], {CHOOSE x \in all_filtered_ids :
                                     \A y \in all_filtered_ids : x <= y})
            ELSE ps[f]]
    ELSE ps

RECURSIVE PurgeUpTo(_, _, _)
\* PurgeUntilMalformed from frame f on
PurgeUpTo(ps, all_filtered_ids, f) ==
    IF f > Len(ps) \/ ~isinstance_dict(ps[f]) THEN ps
    ELSE PurgeUpTo([ps EXCEPT ![f] = DictDrop(ps[f], all_filtered_ids)], all_filtered_ids, f + 1)

\* Purge with `break` in place of `continue`: it stops at the first frame that is no dict
PurgeUntilMalformed(ps, all_filtered_ids) ==
    IF all_filtered_ids # {} THEN PurgeUpTo(ps, all_filtered_ids, 1) ELSE ps

\* the purge loop of filter_referees
Purge(ps, all_filtered_ids) ==
    IF all_filtered_ids # {}
    THEN [f \in DOMAIN ps |->
            IF isinstance_dict(ps[f]) THEN DictDrop(ps[f], all_filtered_ids) ELSE ps[f]]
    ELSE ps

\* --------------------------------------------------------- ball interpolator

\* ball_positions = [track.get(1, {}).get("bbox", []) for track in ball_tracks]
BallPositions(ball_tracks) ==
    [f \in DOMAIN ball_tracks |->
        IF BallId \in DOMAIN ball_tracks[f] /\ "bbox" \in DOMAIN ball_tracks[f][BallId]
        THEN ball_tracks[f][BallId].bbox
        ELSE <<>>]

\* the flags read off a sequence that is already dense: no frame is marked
FlagsOfDense(ball_positions) == [f \in DOMAIN ball_positions |-> 0]

\* [1 if not bbox else 0 for bbox in ball_positions]
InterpolationFlags(ball_positions) ==
    [f \in DOMAIN ball_positions |-> IF ball_positions[f] = <<>> THEN 1 ELSE 0]

\* pd.DataFrame(rows, columns=[x1, y1, x2, y2]) raises when there are rows and all are empty
DataFrameRaises(ball_positions) ==
    /\ Len(ball_positions) > 0
    /\ \A f \in DOMAIN ball_positions : ball_positions[f] = <<>>

\* One column of the frame: <<v>> is a number, <<>> is NaN.
Column(ball_positions, c) ==
    [f \in DOMAIN ball_positions |->
        IF ball_positions[f] = <<>> THEN <<>> ELSE <<ball_positions[f][c]>>]

\* interpolate() carrying the slope of the last two known rows on past the last known row
InterpolateExtrapolate(col) ==
    [f \in DOMAIN col |->
        IF col[f] # <<>> THEN col[f]
        ELSE LET before == {a \in DOMAIN col : a < f /\ col[a] # <<>>}
                 after == {b \in DOMAIN col : b > f /\ col[b] # <<>>}
             IN  IF before = {} THEN <<>>
                 ELSE LET a == CHOOSE x \in before : \A y \in before : y <= x
                          earlier == {x \in before : x < a}
                      IN  IF after = {}
                          THEN IF earlier = {} THEN col[a]
                               ELSE LET e == CHOOSE x \in earlier : \A y \in earlier : y <= x
                                    IN  <<col[a][1]
                                            + ((col[a][1] - col[e][1]) * (f - a)) \div (a - e)>>
                          ELSE LET b == CHOOSE x \in after : \A y \in after : x <= y
                               IN  <<col[a][1] + ((col[b][1] - col[a][1]) * (f - a)) \div (b - a)>>]

\* DataFrame.ffill() in place of interpolate(): a gap repeats the last known value
InterpolatePad(col) ==
    [f \in DOMAIN col |->
        IF col[f] # <<>> THEN col[f]
        ELSE LET before == {a \in DOMAIN col : a < f /\ col[a] # <<>>}
             IN  IF before = {} THEN <<>>
                 ELSE col[CHOOSE x \in before : \A y \in before : y <= x]]

\* DataFrame.interpolate() on one column: linear between known neighbours over equally
\* spaced rows, the last known value after the last known row, NaN before the first.
InterpolateColumn(col) ==
    [f \in DOMAIN col |->
        IF col[f] # <<>> THEN col[f]
        ELSE LET before == {a \in DOMAIN col : a < f /\ col[a] # <<>>}
                 after == {b \in DOMAIN col : b > f /\ col[b] # <<>>}
             IN  IF before = {} THEN <<>>
                 ELSE LET a == CHOOSE x \in before : \A y \in before : y <= x
                      IN  IF after = {} THEN col[a]
                          ELSE LET b == CHOOSE x \in after : \A y \in after : x <= y
                               IN  <<col[a][1] + ((col[b][1] - col[a][1]) * (f - a)) \div (b - a)>>]

\* DataFrame.bfill() on one column: NaN takes the next following value
BfillColumn(col) ==
    [f \in DOMAIN col |->
        IF col[f] # <<>> THEN col[f]
        ELSE LET after == {b \in DOMAIN col : b > f /\ col[b] # <<>>}
             IN  IF after = {} THEN <<>>
                 ELSE col[CHOOSE x \in after : \A y \in after : x <= y]]

\* a cell of the frame back as a number of the bbox list
Cell(col, f) == col[f][1]

\* interpolate_ball_positions leaving the rows before the first detection empty
\* (no bfill: the rows interpolate() cannot fill stay without a ball)
interpolate_no_bfill(ball_tracks) ==
    LET ball_positions == BallPositions(ball_tracks)
        df == [c \in 1..4 |-> InterpolateColumn(Column(ball_positions, c))]
    IN  [f \in DOMAIN ball_tracks |->
            IF df[1][f] = <<>> THEN EmptyDict
            ELSE DictPut(EmptyDict, BallId,
                    [bbox |-> <<Cell(df[1], f), Cell(df[2], f), Cell(df[3], f), Cell(df[4], f)>>])]

\* interpolate_ball_positions dropping the rows that interpolate() leaves undefined
\* (dropna in place of bfill)
interpolate_dropna(ball_tracks) ==
    LET ball_positions == BallPositions(ball_tracks)
        df == [c \in 1..4 |-> InterpolateColumn(Column(ball_positions, c))]
        kept == {f \in DOMAIN ball_tracks : df[1][f] # <<>>}
        first == IF kept = {} THEN 1 ELSE CHOOSE x \in kept : \A y \in kept : x <= y
    IN  [k \in 1..(Len(ball_tracks) - first + 1) |->
            DictPut(EmptyDict, BallId,
                    [bbox |-> <<Cell(df[1], k + first - 1), Cell(df[2], k + first - 1),
                                Cell(df[3], k + first - 1), Cell(df[4], k + first - 1)>>])]

\* Tracker.interpolate_ball_positions, the value returned when the DataFrame is built
interpolate_ball_positions(ball_tracks) ==
    LET ball_positions == BallPositions(ball_tracks)
        df == [c \in 1..4 |-> BfillColumn(InterpolateColumn(Column(ball_positions, c)))]
    IN  [f \in DOMAIN ball_tracks |->
            DictPut(EmptyDict, BallId,
                    [bbox |-> <<Cell(df[1], f), Cell(df[2], f), Cell(df[3], f), Cell(df[4], f)>>])]

\* ------------------------------------------------------------ process_video

\* StageOrder with the team colours assigned ahead of the referee filter
StageOrderTeamFirst ==
    <<"get_object_tracks", "add_position_to_tracks", "team_assignment", "filter_referees",
      "camera_movement", "interpolate_ball_positions", "player_ball_assignment", "done">>

\* StageOrder with the ball interpolation ahead of the referee filter
StageOrderInterpolateFirst ==
    <<"get_object_tracks", "add_position_to_tracks", "interpolate_ball_positions",
      "filter_referees", "camera_movement", "team_assignment",
      "player_ball_assignment", "done">>

\* The stages of process_video in the order of its statements.
StageOrder == <<"get_object_tracks", "add_position_to_tracks", "filter_referees",
                "camera_movement", "interpolate_ball_positions", "team_assignment",
                "player_ball_assignment", "done">>

\* the statement of process_video that follows stage s
StageAfter(s) == StageOrder[1 + CHOOSE i \in 1..(Len(StageOrder) - 1) : StageOrder[i] = s]

Init ==
    /\ frames \in UNION {[1..n -> FrameMenu] : n \in 0..MaxFrames}
    /\ pc = "get_object_tracks"
    /\ calls = <<>>
    /\ detections = <<>>
    /\ frame_num = 0
    /\ tracker_seen = <<>>
    /\ detections_with_tracks = <<>>
    /\ players = <<>>
    /\ referees = <<>>
    /\ ball = <<>>
    /\ interpolation_tracker = NoFlags
    /\ filtered_by_overlap = {}
    /\ filtered_by_color = {}
    /\ unfiltered_players = <<>>
    /\ fault = "none"
    /\ call = [fn |-> "process_video", verbose |-> TRUE, cuda |-> FALSE, mps |-> FALSE]
    /\ outcome = [status |-> "none", probes |-> <<>>]
    /\ tags = <<>>
    /\ next_tag_id = 1

\* mutant of TrackerInitRaises: the failed import of the detection library is swallowed
TrackerInitSwallows(f) == f = "model_load"

\* the detection library cannot be imported (line 85) or the model cannot be loaded
\* (line 96): Tracker.__init__ raises; a failing torch import (line 77) or fuse (line 100)
\* is caught and the construction goes on
TrackerInitRaises(f) == f \in {"ultralytics_import", "model_load"}

\* model.predict raises inside detect_frames; it is called only when there are frames
PredictRaises(f, fs) == f = "predict" /\ Len(fs) > 0

\* get_device with the Apple-silicon accelerator asked for first
get_device_mps_first(torch_fails, cuda, mps) ==
    IF torch_fails THEN "cpu"
    ELSE IF mps THEN "mps"
    ELSE IF cuda THEN "cuda"
    ELSE "cpu"

\* utils.get_device: "cuda" when torch.cuda.is_available(), else "mps" when that backend
\* is available, else "cpu"; "cpu" as well when torch cannot be imported
get_device(torch_fails, cuda, mps) ==
    IF torch_fails THEN "cpu"
    ELSE IF cuda THEN "cuda"
    ELSE IF mps THEN "mps"
    ELSE "cpu"

\* the answer of get_device() in the environment of this run
ProbeDevice == get_device(fault = "torch_import", call.cuda, call.mps)

\* tracker.get_object_tracks(frames), up to the frame loop: detect_frames and the empty
\* store; an exception of model.predict is caught nowhere and ends process_video.
\* outcome.probes keeps the answers of the calls of get_device(): one in detect_frames
\* ahead of the batch loop, one more for the log line when verbose.
GetObjectTracks ==
    /\ pc = "get_object_tracks"
    /\ calls' = Append(calls, "get_object_tracks")
    /\ IF PredictRaises(fault, frames)
       THEN /\ pc' = "error"
            /\ outcome' = [outcome EXCEPT !.probes = Append(@, ProbeDevice)]
            /\ UNCHANGED <<detections, frame_num, players, referees, ball>>
       ELSE /\ detections' = detect_frames(frames)
            /\ outcome' = [outcome EXCEPT !.probes =
                              IF call.verbose THEN Append(Append(@, ProbeDevice), ProbeDevice)
                              ELSE Append(@, ProbeDevice)]
            /\ frame_num' = 0
            /\ players' = <<>>
            /\ referees' = <<>>
            /\ ball' = <<>>
            /\ pc' = IF Len(detections') = 0 THEN StageAfter("get_object_tracks")
                     ELSE "track_frame"
    /\ UNCHANGED <<frames, tracker_seen, detections_with_tracks, interpolation_tracker,
                   filtered_by_overlap, filtered_by_color, unfiltered_players>>
    /\ UNCHANGED <<fault, call, tags, next_tag_id>>

\* One iteration of `for frame_num, detection in enumerate(detections)`.
TrackFrame ==
    /\ pc = "track_frame"
    /\ UNCHANGED <<fault, call, outcome, tags,
               next_tag_id>>
    /\ frame_num < Len(detections)
    /\ LET detection_supervision == RemapGoalkeepers(EnumerateAt(detections, frame_num))
       IN  \E answer \in TrackerAnswers(Len(detection_supervision)) :
             LET tracked == Emitted(detection_supervision, answer, 1)
             IN  /\ tracker_seen' = Append(tracker_seen,
                                           [frame |-> frame_num, dets |-> detection_supervision])
                 /\ detections_with_tracks' = tracked
                 /\ players' = Append(players, PartitionInto(EmptyDict, tracked, "player", 1))
                 /\ referees' = Append(referees, PartitionInto(EmptyDict, tracked, "referee", 1))
                 /\ ball' = Append(ball, BallInto(EmptyDict, detection_supervision, 1))
    /\ frame_num' = frame_num + 1
    /\ pc' = IF frame_num' = Len(detections) THEN StageAfter("get_object_tracks") ELSE "track_frame"
    /\ UNCHANGED <<frames, calls, detections, interpolation_tracker,
                   filtered_by_overlap, filtered_by_color, unfiltered_players>>

\* tracker.add_position_to_tracks(tracks)
AddPositionToTracks ==
    /\ pc = "add_position_to_tracks"
    /\ UNCHANGED <<fault, call, outcome, tags,
               next_tag_id>>
    /\ calls' = Append(calls, "add_position_to_tracks")
    /\ players' = AddPositions("players", players)
    /\ referees' = AddPositions("referees", referees)
    /\ ball' = AddPositions("ball", ball)
    /\ detections_with_tracks' = <<>>    \* a local of get_object_tracks, gone at its return
    /\ pc' = StageAfter("add_position_to_tracks")
    /\ UNCHANGED <<frames, detections, frame_num, tracker_seen,
                   interpolation_tracker, filtered_by_overlap, filtered_by_color,
                   unfiltered_players>>

\* tracks = referee_filter.filter_referees(frames, tracks)
FilterReferees ==
    /\ pc = "filter_referees"
    /\ UNCHANGED <<fault, call, outcome, tags,
               next_tag_id>>
    /\ calls' = Append(calls, "filter_referees")
    /\ unfiltered_players' = players
    /\ filtered_by_overlap' = filter_by_referee_tracks(players, referees)
    /\ filtered_by_color' =
          filter_by_color_analysis(frames, players, ColorCheckSet(filtered_by_overlap'))
    /\ players' = Purge(players, filtered_by_overlap' \cup filtered_by_color')
    /\ pc' = StageAfter("filter_referees")
    /\ UNCHANGED <<frames, detections, frame_num, tracker_seen, detections_with_tracks,
                   referees, ball, interpolation_tracker>>

\* CameraMovementEstimator(frames[0], ...) and its passes; frames[0] raises on an empty video
CameraMovement ==
    /\ pc = "camera_movement"
    /\ UNCHANGED <<fault, call, outcome, tags,
               next_tag_id>>
    /\ calls' = Append(calls, "camera_movement")
    /\ pc' = IF Len(frames) = 0 THEN "error" ELSE StageAfter("camera_movement")
    /\ UNCHANGED <<frames, detections, frame_num, tracker_seen, detections_with_tracks,
                   players, referees, ball, interpolation_tracker, filtered_by_overlap,
                   filtered_by_color, unfiltered_players>>

\* tracks["ball"] = tracker.interpolate_ball_positions(tracks["ball"])
InterpolateBallPositions ==
    /\ pc = "interpolate_ball_positions"
    /\ UNCHANGED <<fault, call, outcome, tags,
               next_tag_id>>
    /\ calls' = Append(calls, "interpolate_ball_positions")
    /\ interpolation_tracker' = InterpolationFlags(BallPositions(ball))
    /\ IF DataFrameRaises(BallPositions(ball))
       THEN /\ pc' = "error"
            /\ ball' = ball
       ELSE /\ pc' = StageAfter("interpolate_ball_positions")
            /\ ball' = interpolate_ball_positions(ball)
    /\ UNCHANGED <<frames, detections, frame_num, tracker_seen, detections_with_tracks,
                   players, referees, filtered_by_overlap, filtered_by_color,
                   unfiltered_players>>

\* TeamAssigner.get_teams: every player record of every frame gets a team_colour, an RGB
\* triple taken from the colours of the player's frame
get_teams(fs, ps) ==
    [f \in DOMAIN ps |->
        [p \in DOMAIN ps[f] |-> DictPut(ps[f][p], "team_colour", fs[f].pixels)]]

\* team_assigner.get_teams(frames, tracks)
TeamAssignment ==
    /\ pc = "team_assignment"
    /\ UNCHANGED <<fault, call, outcome, tags,
               next_tag_id>>
    /\ calls' = Append(calls, "team_assignment")
    /\ players' = get_teams(frames, players)
    /\ pc' = StageAfter("team_assignment")
    /\ UNCHANGED <<frames, detections, frame_num, tracker_seen, detections_with_tracks,
                   referees, ball, interpolation_tracker, filtered_by_overlap,
                   filtered_by_color, unfiltered_players>>

\* player_assigner.get_player_and_possession(tracks)
PlayerBallAssignment ==
    /\ pc = "player_ball_assignment"
    /\ UNCHANGED <<fault, call, outcome, tags,
               next_tag_id>>
    /\ calls' = Append(calls, "player_ball_assignment")
    /\ pc' = StageAfter("player_ball_assignment")
    /\ UNCHANGED <<frames, detections, frame_num, tracker_seen, detections_with_tracks,
                   players, referees, ball, interpolation_tracker, filtered_by_overlap,
                   filtered_by_color, unfiltered_players>>

Next ==
    \/ GetObjectTracks
    \/ TrackFrame
    \/ AddPositionToTracks
    \/ FilterReferees
    \/ CameraMovement
    \/ InterpolateBallPositions
    \/ TeamAssignment
    \/ PlayerBallAssignment

Spec == Init /\ [][Next]_vars

\* ----------------------------------------- process_video in a failing environment

\* What may fail: importing torch, importing ultralytics, loading the model, fusing its
\* layers, running the inference.
Faults == {"none", "torch_import", "ultralytics_import", "model_load", "fuse", "predict"}

\* process_video before `tracker = Tracker(model_path, classes, verbose)`
InitFatal ==
    /\ frames \in UNION {[1..n -> FrameMenu] : n \in 0..1}
    /\ pc = "tracker_init"
    /\ calls = <<>>
    /\ detections = <<>>
    /\ frame_num = 0
    /\ tracker_seen = <<>>
    /\ detections_with_tracks = <<>>
    /\ players = <<>>
    /\ referees = <<>>
    /\ ball = <<>>
    /\ interpolation_tracker = NoFlags
    /\ filtered_by_overlap = {}
    /\ filtered_by_color = {}
    /\ unfiltered_players = <<>>
    /\ fault \in Faults
    /\ call \in {[fn |-> "process_video", verbose |-> v, cuda |-> c, mps |-> m] :
                    v \in BOOLEAN, c \in BOOLEAN, m \in BOOLEAN}
    /\ outcome = [status |-> "none", probes |-> <<>>]
    /\ tags = <<>>
    /\ next_tag_id = 1

\* tracker = Tracker(model_path, classes, verbose)
CreateTracker ==
    /\ pc = "tracker_init"
    /\ pc' = IF TrackerInitRaises(fault) THEN "error" ELSE "get_object_tracks"
    /\ UNCHANGED <<frames, calls, detections, frame_num, tracker_seen, detections_with_tracks,
                   players, referees, ball, interpolation_tracker, filtered_by_overlap,
                   filtered_by_color, unfiltered_players, fault, call, outcome, tags,
               next_tag_id>>

NextFatal ==
    \/ CreateTracker
    \/ Next

SpecFatal == InitFatal /\ [][NextFatal]_vars

\* ------------------------------------------------- functions called on their own

\* No video is being processed: the state of process_video at rest while one function
\* of the repository is called with arguments of its own.
NoVideo ==
    /\ frames = <<>>
    /\ pc = "call"
    /\ calls = <<>>
    /\ detections = <<>>
    /\ frame_num = 0
    /\ tracker_seen = <<>>
    /\ detections_with_tracks = <<>>
    /\ players = <<>>
    /\ referees = <<>>
    /\ ball = <<>>
    /\ filtered_by_overlap = {}
    /\ filtered_by_color = {}
    /\ unfiltered_players = <<>>
    /\ fault = "none"
    /\ tags = <<>>
    /\ next_tag_id = 1

\* the function under call has not run yet
Pending == [status |-> "pending"]

\* what a call leaves alone
CallFrame == <<frames, pc, calls, detections, frame_num, tracker_seen, detections_with_tracks,
               players, referees, ball, filtered_by_overlap, filtered_by_color,
               unfiltered_players, fault, call, tags, next_tag_id>>

\* ------------------------------------- Tracker.interpolate_ball_positions on its own

\* longest ball sequence handed to interpolate_ball_positions
MaxBallFrames == 5

\* A third ball box; its four coordinates differ from BoxA and from BoxB by different
\* amounts, and every difference among the three boxes is a multiple of 60, so the
\* interpolants over the gaps met here are whole numbers.
BoxC == <<60, 60, 72, 132>>

\* what tracks["ball"][f] holds after get_object_tracks: nothing or {1: {"bbox": ...}}
BallEntries ==
    {EmptyDict} \cup {DictPut(EmptyDict, BallId, [bbox |-> b]) : b \in {BoxA, BoxB, BoxC}}

\* eleven frames with the ball at (0,0,10,10) in the first and at (100,0,110,10) in the last
ExampleBallTracks ==
    [f \in 1..11 |->
        IF f = 1 THEN DictPut(EmptyDict, BallId, [bbox |-> <<0, 0, 10, 10>>])
        ELSE IF f = 11 THEN DictPut(EmptyDict, BallId, [bbox |-> <<100, 0, 110, 10>>])
        ELSE EmptyDict]

BallTrackInputs ==
    UNION {[1..n -> BallEntries] : n \in 0..MaxBallFrames} \cup {ExampleBallTracks}

InitInterpolate ==
    /\ NoVideo
    /\ interpolation_tracker = NoFlags
    /\ call \in {[fn |-> "interpolate_ball_positions", ball_tracks |-> s] : s \in BallTrackInputs}
    /\ outcome = Pending

\* tracker.interpolate_ball_positions(ball_tracks): the flags are stored first, then the
\* DataFrame is built (or raises) and the dense sequence is returned
CallInterpolateBallPositions ==
    /\ call.fn = "interpolate_ball_positions"
    /\ outcome = Pending
    /\ interpolation_tracker' = InterpolationFlags(BallPositions(call.ball_tracks))
    /\ outcome' = IF DataFrameRaises(BallPositions(call.ball_tracks))
                  THEN [status |-> "raised"]
                  ELSE [status |-> "returned",
                        value |-> interpolate_ball_positions(call.ball_tracks)]
    /\ UNCHANGED CallFrame

NextInterpolate == CallInterpolateBallPositions

SpecInterpolate == InitInterpolate /\ [][NextInterpolate]_vars

\* ------------------------------------------------- Tracker.detect_frames on its own

\* longest frame list handed to detect_frames, largest batch size asked for by number
MaxDetectFrames == 5

MaxBatch == 3

\* the batch size the GPU path switches to
GpuBatchSize == 32

\* frames with three different detection results
DetectFrameMenu == {
    [pixels |-> White, scene |-> <<>>],
    [pixels |-> White, scene |-> <<Det("player", BoxP, 80), Det("ball", BoxA, 30)>>],
    [pixels |-> White, scene |-> <<Det("ball", BoxA, 29)>>]
  }

\* batch sizes: <<>> is None, <<b>> is the number b
BatchSizes == {<<>>} \cup {<<b>> : b \in 1..MaxBatch} \cup {<<DefaultBatchSize>>}

\* what get_device() answers
Devices == {"cuda", "mps", "cpu"}

\* the batch size detect_frames works with: the argument, else self.batch_size, else 20;
\* 20 becomes 32 when the device is not the CPU
EffectiveBatchSize(batch_size, self_batch_size, device) ==
    LET chosen == IF batch_size # <<>> THEN batch_size[1]
                  ELSE IF self_batch_size # <<>> THEN self_batch_size[1]
                  ELSE DefaultBatchSize
    IN  IF device # "cpu" /\ chosen = DefaultBatchSize THEN GpuBatchSize ELSE chosen

\* the list indices of frames[i:i+batch_size], in order
SliceIndices(fs, i, batch_size) ==
    [k \in 1..(Min(i + batch_size, Len(fs)) - i) |-> i + k - 1]

InitDetect ==
    /\ NoVideo
    /\ interpolation_tracker = NoFlags
    /\ call \in {[fn |-> "detect_frames", frames |-> fs, batch_size |-> b,
                  self_batch_size |-> sb, device |-> d] :
                    fs \in UNION {[1..n -> DetectFrameMenu] : n \in 0..MaxDetectFrames},
                    b \in BatchSizes, sb \in {<<>>, <<2>>}, d \in Devices}
    /\ outcome = Pending

\* detect_frames up to the batch loop: the batch size is settled, detections = []
DetectFramesEnter ==
    /\ call.fn = "detect_frames"
    /\ outcome = Pending
    /\ outcome' = [status |-> "running", i |-> 0,
                   batch_size |-> EffectiveBatchSize(call.batch_size, call.self_batch_size,
                                                     call.device),
                   detections |-> <<>>, submitted |-> <<>>]
    /\ UNCHANGED <<CallFrame, interpolation_tracker>>

\* one iteration of `for i in range(0, len(frames), batch_size)`; submitted keeps the
\* slices handed to model.predict
DetectFramesBatch ==
    /\ call.fn = "detect_frames"
    /\ outcome.status = "running"
    /\ outcome.i < Len(call.frames)
    /\ outcome' = [outcome EXCEPT
                     !.detections = @ \o PredictBatch(call.frames, outcome.i, outcome.batch_size),
                     !.submitted = Append(@, SliceIndices(call.frames, outcome.i,
                                                          outcome.batch_size)),
                     !.i = @ + outcome.batch_size]
    /\ UNCHANGED <<CallFrame, interpolation_tracker>>

\* the loop is over: return detections
DetectFramesReturn ==
    /\ call.fn = "detect_frames"
    /\ outcome.status = "running"
    /\ outcome.i >= Len(call.frames)
    /\ outcome' = [status |-> "returned", value |-> outcome.detections,
                   batch_size |-> outcome.batch_size, submitted |-> outcome.submitted]
    /\ UNCHANGED <<CallFrame, interpolation_tracker>>

NextDetect ==
    \/ DetectFramesEnter
    \/ DetectFramesBatch
    \/ DetectFramesReturn

SpecDetect == InitDetect /\ [][NextDetect]_vars

\* ------------------------------------------- RefereeFilter.calculate_iou on its own

\* largest box coordinate handed to calculate_iou
MaxCoord == 3

\* boxes [x1, y1, x2, y2] on the grid with x1 <= x2 and y1 <= y2: a line or a point
\* (zero area) is among them
GridBoxes ==
    {b \in [1..4 -> 0..MaxCoord] : b[1] <= b[3] /\ b[2] <= b[4]}

InitIou ==
    /\ NoVideo
    /\ interpolation_tracker = NoFlags
    /\ call \in {[fn |-> "calculate_iou", bbox1 |-> a, bbox2 |-> b] :
                    a \in GridBoxes, b \in GridBoxes}
    /\ outcome = Pending

\* referee_filter.calculate_iou(bbox1, bbox2)
CallCalculateIou ==
    /\ call.fn = "calculate_iou"
    /\ outcome = Pending
    /\ outcome' = [status |-> "returned", value |-> calculate_iou(call.bbox1, call.bbox2)]
    /\ UNCHANGED <<CallFrame, interpolation_tracker>>

NextIou == CallCalculateIou

SpecIou == InitIou /\ [][NextIou]_vars

\* ---------------------------------------- RefereeFilter.is_referee_color on its own

\* channel values of the colours tried: around the tolerance from 0 (39, 40, 41, and
\* 24 with 32, the legs of a distance of exactly 40), around it from 255 and from 140
ColorChannels == {0, 24, 32, 39, 40, 41, 100, 140, 180, 215, 216, 255}

InitColor ==
    /\ NoVideo
    /\ interpolation_tracker = NoFlags
    /\ call \in {[fn |-> "is_referee_color", color |-> c] : c \in [1..3 -> ColorChannels]}
    /\ outcome = Pending

\* referee_filter.is_referee_color(color)
CallIsRefereeColor ==
    /\ call.fn = "is_referee_color"
    /\ outcome = Pending
    /\ outcome' = [status |-> "returned", value |-> is_referee_color(call.color)]
    /\ UNCHANGED <<CallFrame, interpolation_tracker>>

NextColor == CallIsRefereeColor

SpecColor == InitColor /\ [][NextColor]_vars

\* -------------------------------- RefereeFilter.filter_by_color_analysis on its own

\* longest video handed to filter_by_color_analysis
MaxColorFrames == 6

\* a frame of one colour with nothing detected in it
Plain(pixels) == [pixels |-> pixels, scene |-> <<>>]

\* One player id over the frames of a video: in each frame the player is absent, or
\* present at BoxP on a black frame (a referee colour) or on a white one (none).
ShirtFrames == {
    [frame |-> Plain(White), players |-> EmptyDict],
    [frame |-> Plain(Black), players |-> DictPut(EmptyDict, 1, [bbox |-> BoxP])],
    [frame |-> Plain(White), players |-> DictPut(EmptyDict, 1, [bbox |-> BoxP])]
  }

\* ten frames with the player in each, black in the first three
ThreeOfTen ==
    [f \in 1..10 |->
        [frame |-> Plain(IF f <= 3 THEN Black ELSE White),
         players |-> DictPut(EmptyDict, 1, [bbox |-> BoxP])]]

ShirtVideos == UNION {[1..n -> ShirtFrames] : n \in 0..MaxColorFrames} \cup {ThreeOfTen}

InitColorAnalysis ==
    /\ NoVideo
    /\ interpolation_tracker = NoFlags
    /\ call \in {[fn |-> "filter_by_color_analysis",
                  frames |-> [f \in DOMAIN v |-> v[f].frame],
                  players |-> [f \in DOMAIN v |-> v[f].players],
                  player_ids_to_check |-> check] :
                    v \in ShirtVideos, check \in {<<>>, <<{1}>>}}
    /\ outcome = Pending

\* referee_filter.filter_by_color_analysis(frames, tracks, player_ids_to_check); beside
\* the returned set the outcome keeps player_colors, filtered_ids as the frame loop left
\* it (direct) and what the closing loop adds to it (by_frequency)
CallFilterByColorAnalysis ==
    /\ call.fn = "filter_by_color_analysis"
    /\ outcome = Pending
    /\ LET acc == ColorFrames([ids |-> {}, colors |-> EmptyDict], call.frames, call.players,
                              call.player_ids_to_check, 1)
       IN  outcome' = [status |-> "returned",
                       value |-> filter_by_color_analysis(call.frames, call.players,
                                                          call.player_ids_to_check),
                       player_colors |-> acc.colors,
                       direct |-> acc.ids,
                       by_frequency |-> ConsistentIds(acc.colors)]
    /\ UNCHANGED <<CallFrame, interpolation_tracker>>

NextColorAnalysis == CallFilterByColorAnalysis

SpecColorAnalysis == InitColorAnalysis /\ [][NextColorAnalysis]_vars

\* ----------------------------------- RefereeFilter.filter_by_referee_tracks on its own

\* a referee box covering exactly three tenths of BoxP: IoU(BoxP, BoxE) = 120 / 400
BoxE == <<0, 0, 6, 20>>

\* tracks["players"][f] and tracks["referees"][f] of the stores tried
PlayerFrames == {
    EmptyDict,
    DictPut(EmptyDict, 1, [bbox |-> BoxP]),
    DictPut(EmptyDict, 2, [bbox |-> BoxP]),
    DictPut(DictPut(EmptyDict, 1, [bbox |-> BoxP]), 2, [bbox |-> BoxQ])
  }

RefereeFrames == {
    EmptyDict,
    DictPut(EmptyDict, 5, [bbox |-> BoxR]),
    DictPut(EmptyDict, 5, [bbox |-> BoxE])
  }

InitOverlap ==
    /\ NoVideo
    /\ interpolation_tracker = NoFlags
    /\ call \in {[fn |-> "filter_by_referee_tracks", players |-> ps, referees |-> rs] :
                    ps \in UNION {[1..n -> PlayerFrames] : n \in 0..MaxFrames},
                    rs \in UNION {[1..n -> RefereeFrames] : n \in 0..MaxFrames}}
    /\ Len(call.players) = Len(call.referees)
    /\ outcome = Pending

\* referee_filter.filter_by_referee_tracks(tracks); the method reads tracks and writes
\* only its local filtered_ids, so the store after the call is the store before it
CallFilterByRefereeTracks ==
    /\ call.fn = "filter_by_referee_tracks"
    /\ outcome = Pending
    /\ outcome' = [status |-> "returned",
                   value |-> filter_by_referee_tracks(call.players, call.referees),
                   players |-> call.players, referees |-> call.referees]
    /\ UNCHANGED <<CallFrame, interpolation_tracker>>

NextOverlap == CallFilterByRefereeTracks

SpecOverlap == InitOverlap /\ [][NextOverlap]_vars

\* ---------------------------------------------- Tracker.draw_annotations on its own

\* longest run of interpolated frames handed to draw_annotations
MaxRun == 27

\* the count of consecutive interpolated frames up to which the ball is still drawn
DisplayLimit == 25

\* flags made of d0 detected frames, r1 interpolated, d1 detected, r2 interpolated
RunFlags(d0, r1, d1, r2) ==
    [f \in 1..(d0 + r1 + d1 + r2) |->
        IF f <= d0 THEN 0
        ELSE IF f <= d0 + r1 THEN 1
        ELSE IF f <= d0 + r1 + d1 THEN 0
        ELSE 1]

\* interpolation_tracker as interpolate_ball_positions leaves it: no frame at all, or at
\* least one frame with a direct detection
TrackerFlags ==
    {RunFlags(d[1], d[2], d[3], d[4]) :
        d \in {e \in (0..1) \X (0..MaxRun) \X (0..1) \X (0..MaxRun) :
                  e[1] + e[3] >= 1 \/ e[2] + e[4] = 0}}

\* BallDrawn that stops drawing one frame early
BallDrawnStrict(num_interpolated, flag) == num_interpolated < DisplayLimit \/ flag = 0

\* num_interpolated <= 25 or self.interpolation_tracker[frame_num] == 0
BallDrawn(num_interpolated, flag) == num_interpolated <= DisplayLimit \/ flag = 0

InitDraw ==
    /\ NoVideo
    /\ interpolation_tracker \in TrackerFlags
    /\ call \in {[fn |-> "draw_annotations", ball_selected |-> b] : b \in BOOLEAN}
    /\ outcome = Pending

\* draw_annotations up to the frame loop
DrawEnter ==
    /\ call.fn = "draw_annotations"
    /\ outcome = Pending
    /\ outcome' = [status |-> "running", frame_num |-> 0, num_interpolated |-> 0,
                   ball_drawn |-> <<>>]
    /\ UNCHANGED <<CallFrame, interpolation_tracker>>

\* One iteration of the frame loop, the ball part: with the ball class selected the
\* counter is stepped or reset and the ball entry of the frame is drawn or left out;
\* ball_drawn keeps for every frame whether the triangle was drawn.
DrawFrame ==
    /\ call.fn = "draw_annotations"
    /\ outcome.status = "running"
    /\ outcome.frame_num < Len(interpolation_tracker)
    /\ LET flag == interpolation_tracker[outcome.frame_num + 1]
           num == IF ~call.ball_selected THEN outcome.num_interpolated
                  ELSE IF flag = 1 THEN outcome.num_interpolated + 1
                  ELSE 0
       IN  outcome' = [outcome EXCEPT
                         !.num_interpolated = num,
                         !.ball_drawn = Append(@, call.ball_selected /\ BallDrawn(num, flag)),
                         !.frame_num = @ + 1]
    /\ UNCHANGED <<CallFrame, interpolation_tracker>>

\* the loop is over: return output_frames
DrawReturn ==
    /\ call.fn = "draw_annotations"
    /\ outcome.status = "running"
    /\ outcome.frame_num >= Len(interpolation_tracker)
    /\ outcome' = [status |-> "returned", ball_drawn |-> outcome.ball_drawn]
    /\ UNCHANGED <<CallFrame, interpolation_tracker>>

NextDraw ==
    \/ DrawEnter
    \/ DrawFrame
    \/ DrawReturn

SpecDraw == InitDraw /\ [][NextDraw]_vars

\* ------------------------------------------- RefereeFilter.filter_referees on its own

\* RefereeFilter.filter_referees on frames and the players and referees of a track
\* store: the two flagged sets and tracks["players"] after the purge
filter_referees(fs, ps, rs) ==
    LET overlap == filter_by_referee_tracks(ps, rs)
        color == filter_by_color_analysis(fs, ps, ColorCheckSet(overlap))
    IN  [filtered_by_overlap |-> overlap,
         filtered_by_color |-> color,
         players |-> Purge(ps, overlap \cup color)]

\* One frame of a store handed to filter_referees, with its picture: well-formed frames
\* with and without an overlapping referee, with one and with two overlapping players,
\* with a referee at the threshold, and frames whose players or referees entry is no dict.
StoreFrames == {
    [frame |-> Plain(White), players |-> EmptyDict, referees |-> EmptyDict],
    [frame |-> Plain(White), players |-> DictPut(EmptyDict, 1, [bbox |-> BoxP]),
     referees |-> DictPut(EmptyDict, 5, [bbox |-> BoxR])],
    [frame |-> Plain(White), players |-> DictPut(EmptyDict, 1, [bbox |-> BoxP]),
     referees |-> EmptyDict],
    [frame |-> Plain(Black),
     players |-> DictPut(DictPut(EmptyDict, 1, [bbox |-> BoxP]), 2, [bbox |-> BoxQ]),
     referees |-> EmptyDict],
    [frame |-> Plain(White),
     players |-> DictPut(DictPut(EmptyDict, 1, [bbox |-> BoxP]), 2, [bbox |-> BoxP]),
     referees |-> DictPut(EmptyDict, 5, [bbox |-> BoxR])],
    [frame |-> Plain(White),
     players |-> DictPut(DictPut(EmptyDict, 1, [bbox |-> BoxQ]), 2, [bbox |-> BoxP]),
     referees |-> DictPut(EmptyDict, 5, [bbox |-> BoxE])],
    [frame |-> Plain(White), players |-> NotAMapping,
     referees |-> DictPut(EmptyDict, 5, [bbox |-> BoxR])],
    [frame |-> Plain(Black), players |-> DictPut(EmptyDict, 2, [bbox |-> BoxP]),
     referees |-> NotAMapping]
  }

InitFilter ==
    /\ NoVideo
    /\ interpolation_tracker = NoFlags
    /\ call \in {[fn |-> "filter_referees",
                  frames |-> [f \in DOMAIN v |-> v[f].frame],
                  players |-> [f \in DOMAIN v |-> v[f].players],
                  referees |-> [f \in DOMAIN v |-> v[f].referees]] :
                    v \in UNION {[1..n -> StoreFrames] : n \in 0..MaxFrames}}
    /\ outcome = Pending

\* tracks = referee_filter.filter_referees(frames, tracks)
CallFilterReferees ==
    /\ call.fn = "filter_referees"
    /\ outcome = Pending
    /\ LET r == filter_referees(call.frames, call.players, call.referees)
       IN  outcome' = [status |-> "returned", applications |-> 1,
                       filtered_by_overlap |-> r.filtered_by_overlap,
                       filtered_by_color |-> r.filtered_by_color,
                       players |-> r.players, referees |-> call.referees,
                       before |-> call.players]
    /\ UNCHANGED <<CallFrame, interpolation_tracker>>

\* filter_referees applied once more, to the store it returned and the same frames
CallFilterRefereesAgain ==
    /\ call.fn = "filter_referees"
    /\ outcome.status = "returned"
    /\ outcome.applications = 1
    /\ LET r == filter_referees(call.frames, outcome.players, outcome.referees)
       IN  outcome' = [status |-> "returned", applications |-> 2,
                       filtered_by_overlap |-> r.filtered_by_overlap,
                       filtered_by_color |-> r.filtered_by_color,
                       players |-> r.players, referees |-> outcome.referees,
                       before |-> outcome.players]
    /\ UNCHANGED <<CallFrame, interpolation_tracker>>

NextFilter ==
    \/ CallFilterReferees
    \/ CallFilterRefereesAgain

SpecFilter == InitFilter /\ [][NextFilter]_vars

\* ------------------------------------------------------- TaggingEngine on its own
\* The manual tagging engine of the frontend: a list of tags and the counter its ids come
\* from.  A tag is modelled by the three fields the engine itself reads, id, half and
\* timestamp; an id "TAG_<digits>" by its digits, so "TAG_3" and "TAG_0003" differ.

\* the longest tags list explored
MaxTags == 3

\* create_tag is explored while next_tag_id is at most this
MaxTagId == 4

\* timestamps given to create_tag and add_tag are 0..MaxTime
MaxTime == 1

\* {value:04d}: at least four digits, zero padded
RECURSIVE Digits(_)
Digits(n) == IF n < 10 THEN <<n>> ELSE Append(Digits(n \div 10), n % 10)

ZeroPad4(ds) == [i \in 1..(4 - Len(ds)) |-> 0] \o ds

\* f"TAG_{self.next_tag_id:04d}"
TagId(n) == ZeroPad4(Digits(n))

\* int(text) and float(text) of a text of decimal digits
RECURSIVE ParseDigits(_)
ParseDigits(ds) ==
    IF ds = <<>> THEN 0 ELSE 10 * ParseDigits(SubSeq(ds, 1, Len(ds) - 1)) + ds[Len(ds)]

\* Tag(id=..., timestamp=..., half=...)
Tag(id, timestamp, half) == [id |-> id, timestamp |-> timestamp, half |-> half]

\* (x.half, x.timestamp) <= (y.half, y.timestamp), as Python compares tuples
KeyTimestampOnly(x, y) == x.timestamp <= y.timestamp

SortKeyLeq(x, y) == x.half < y.half \/ (x.half = y.half /\ x.timestamp <= y.timestamp)

\* list.sort of a list whose last element alone may be out of place: the sort is stable, so
\* the element goes behind every element whose key is not greater
InsertStable(sorted, x) ==
    LET before == Cardinality({i \in 1..Len(sorted) : SortKeyLeq(sorted[i], x)})
    IN  SubSeq(sorted, 1, before) \o <<x>> \o SubSeq(sorted, before + 1, Len(sorted))

\* self.tags.sort(key=lambda x: (x.half, x.timestamp))
RECURSIVE _sort_tags(_)
_sort_tags(ts) ==
    IF ts = <<>> THEN <<>>
    ELSE InsertStable(_sort_tags(SubSeq(ts, 1, Len(ts) - 1)), ts[Len(ts)])

\* self.tags.pop(i), i counted from 1
Pop(ts, i) == SubSeq(ts, 1, i - 1) \o SubSeq(ts, i + 1, Len(ts))

\* add_tag: self.tags.append(tag); self._sort_tags()
add_tag(ts, tag) == _sort_tags(Append(ts, tag))

\* the engine method that ran last and what it returned, None as <<>>
Returned(fn, value) == [status |-> "returned", fn |-> fn, value |-> value]

\* a row of csv.DictReader: every field is text
Row(id, timestamp, half) == [id |-> id, timestamp |-> timestamp, half |-> half]

\* The files import_from_csv is given: a header alone; two rows out of order; two ids of
\* the same number, one of them unpadded; timestamps "10" and "9"; one row TAG_0001.
CsvFiles ==
    { <<>>,
      << Row(<<0, 0, 0, 2>>, <<0>>, <<2>>), Row(<<0, 0, 0, 1>>, <<1>>, <<1>>) >>,
      << Row(<<3>>, <<1>>, <<1>>), Row(<<0, 0, 0, 3>>, <<0>>, <<1>>) >>,
      << Row(<<5>>, <<1, 0>>, <<1>>), Row(<<6>>, <<9>>, <<1>>) >>,
      << Row(<<0, 0, 0, 1>>, <<0>>, <<1>>) >> }

\* the tags add_tag is given: built by the caller, with an id of the caller's choice
GivenTags == { Tag(id, t, h) : id \in {TagId(1), <<9>>}, t \in 0..MaxTime, h \in 1..2 }

\* self.next_tag_id = max(self.next_tag_id, int(tag.id.split('_')[1]) + 1 ...)
NextIdKept(next, id) == next

NextIdAfter(next, id) == Max(next, ParseDigits(id) + 1)

\* the loop `for row in reader` of import_from_csv, from the cleared engine
RECURSIVE ImportRows(_)
ImportRows(rows) ==
    IF rows = <<>> THEN [tags |-> <<>>, next_tag_id |-> 1]
    ELSE LET done == ImportRows(SubSeq(rows, 1, Len(rows) - 1))
             row  == rows[Len(rows)]
             tag  == Tag(row.id, ParseDigits(row.timestamp), ParseDigits(row.half))
         IN  [tags        |-> add_tag(done.tags, tag),
              next_tag_id |-> NextIdAfter(done.next_tag_id, tag.id)]

\* what an engine method leaves alone
EngineFrame == <<frames, pc, calls, detections, frame_num, tracker_seen,
                 detections_with_tracks, players, referees, ball, interpolation_tracker,
                 filtered_by_overlap, filtered_by_color, unfiltered_players, fault, call>>

\* TaggingEngine()
InitTagging ==
    /\ NoVideo
    /\ interpolation_tracker = NoFlags
    /\ call = [fn |-> "TaggingEngine"]
    /\ outcome = Pending

\* create_tag(event_type, timestamp, team, half)
CallCreateTag ==
    /\ call.fn = "TaggingEngine"
    /\ Len(tags) < MaxTags
    /\ next_tag_id <= MaxTagId
    /\ \E timestamp \in 0..MaxTime : \E half \in 1..2 :
          LET tag == Tag(TagId(next_tag_id), timestamp, half)
          IN  /\ next_tag_id' = next_tag_id + 1
              /\ tags' = _sort_tags(Append(tags, tag))
              /\ outcome' = Returned("create_tag", tag)
    /\ UNCHANGED EngineFrame

\* add_tag(tag)
CallAddTag ==
    /\ call.fn = "TaggingEngine"
    /\ Len(tags) < MaxTags
    /\ \E tag \in GivenTags :
          /\ tags' = add_tag(tags, tag)
          /\ outcome' = Returned("add_tag", <<>>)
    /\ UNCHANGED <<EngineFrame, next_tag_id>>

\* remove_tag(tag_id): the first tag of that id goes, if there is one
CallRemoveTag ==
    /\ call.fn = "TaggingEngine"
    /\ \E tag_id \in {tags[i].id : i \in 1..Len(tags)} \cup {TagId(1)} :
          LET found == {i \in 1..Len(tags) : tags[i].id = tag_id}
          IN  IF found = {}
              THEN /\ tags' = tags
                   /\ outcome' = Returned("remove_tag", FALSE)
              ELSE /\ tags' = Pop(tags, CHOOSE i \in found : \A j \in found : i <= j)
                   /\ outcome' = Returned("remove_tag", TRUE)
    /\ UNCHANGED <<EngineFrame, next_tag_id>>

\* remove_tag_by_index(index), index counted from 0
CallRemoveTagByIndex ==
    /\ call.fn = "TaggingEngine"
    /\ \E index \in -1..MaxTags :
          IF 0 <= index /\ index < Len(tags)
          THEN /\ tags' = Pop(tags, index + 1)
               /\ outcome' = Returned("remove_tag_by_index", TRUE)
          ELSE /\ tags' = tags
               /\ outcome' = Returned("remove_tag_by_index", FALSE)
    /\ UNCHANGED <<EngineFrame, next_tag_id>>

\* clear_all_tags()
CallClearAllTags ==
    /\ call.fn = "TaggingEngine"
    /\ tags' = <<>>
    /\ next_tag_id' = 1
    /\ outcome' = Returned("clear_all_tags", <<>>)
    /\ UNCHANGED EngineFrame

\* import_from_csv(filepath): clear_all_tags(), then one add_tag per row
CallImportFromCsv ==
    /\ call.fn = "TaggingEngine"
    /\ \E rows \in CsvFiles :
          /\ tags' = ImportRows(rows).tags
          /\ next_tag_id' = ImportRows(rows).next_tag_id
          /\ outcome' = Returned("import_from_csv", <<>>)
    /\ UNCHANGED EngineFrame

NextTagging ==
    \/ CallCreateTag
    \/ CallAddTag
    \/ CallRemoveTag
    \/ CallRemoveTagByIndex
    \/ CallClearAllTags
    \/ CallImportFromCsv

SpecTagging == InitTagging /\ [][NextTagging]_vars

\* the engine driven without add_tag: every id it holds was issued by create_tag or read
\* from a file
NextTaggingIssued ==
    \/ CallCreateTag
    \/ CallRemoveTag
    \/ CallRemoveTagByIndex
    \/ CallClearAllTags
    \/ CallImportFromCsv

SpecTaggingIssued == InitTagging /\ [][NextTaggingIssued]_vars

\* ------------------------------------------------------------------ claims

\* process_video has invoked stage s
Called(s) == \E i \in DOMAIN calls : calls[i] = s

\* position of stage s in the order of invocation
CallIndex(s) == CHOOSE i \in DOMAIN calls : calls[i] = s

\* get_object_tracks has returned
Tracked == pc \notin {"tracker_init", "get_object_tracks", "track_frame"}

\* interpolate_ball_positions has returned a sequence
Interpolated == Called("interpolate_ball_positions") /\ pc # "error"

\* player p overlaps some referee of the same frame f by more than 0.30, before the purge
OverlapsAt(f, p) ==
    \E r \in DOMAIN referees[f] :
        LET iou == calculate_iou(unfiltered_players[f][p].bbox, referees[f][r].bbox)
        IN  iou[1] * 10 > 3 * iou[2]

\* C1: once filter_referees has run, a player id that overlapped a referee of the same
\* frame with IoU > 0.30 in at least one frame is absent from players in every frame.
C1_GlobalPurge ==
    Called("filter_referees") =>
        \A f \in DOMAIN unfiltered_players : \A p \in DOMAIN unfiltered_players[f] :
            OverlapsAt(f, p) => \A g \in DOMAIN players : p \notin DOMAIN players[g]

\* C1 witness: three frames, the id overlaps a referee in frame 1 only, was tracked as a
\* player in frames 0 and 2 as well, and is gone from all three.
C1_Witness ==
    /\ Called("filter_referees")
    /\ Len(unfiltered_players) = 3
    /\ \E p \in DOMAIN unfiltered_players[2] :
          /\ OverlapsAt(2, p)
          /\ p \in DOMAIN unfiltered_players[1] /\ ~OverlapsAt(1, p)
          /\ p \in DOMAIN unfiltered_players[3] /\ ~OverlapsAt(3, p)
          /\ \A g \in DOMAIN players : p \notin DOMAIN players[g]

\* the shirt colour sampled for player p in frame f before the purge is a referee colour
ShirtMatchesAt(f, p) ==
    LET s == SampleShirt(frames[f], unfiltered_players[f][p].bbox)
    IN  s # <<>> /\ is_referee_color(s[1])

\* C2: once filter_referees has run, a player id that overlaps no referee in any frame but
\* whose sampled shirt colour matches the referee palette in some frame is in the removal
\* set and absent from players in every frame.
C2_StageBFlagsNewIds ==
    Called("filter_referees") =>
        \A f \in DOMAIN unfiltered_players : \A p \in DOMAIN unfiltered_players[f] :
            (/\ ShirtMatchesAt(f, p)
             /\ \A h \in DOMAIN unfiltered_players :
                    p \in DOMAIN unfiltered_players[h] => ~OverlapsAt(h, p))
            => /\ p \in filtered_by_overlap \cup filtered_by_color
               /\ \A g \in DOMAIN players : p \notin DOMAIN players[g]

\* C3: the step of filter_referees deletes from every frame exactly the ids of the Stage A
\* set united with the Stage B set; every other id stays in the frames it was in with its
\* record unchanged, and referees and ball are left as they were.
C3_ExactRemoval ==
    [][pc = "filter_referees" =>
        LET removed == filtered_by_overlap' \cup filtered_by_color'
        IN  /\ Len(players') = Len(players)
            /\ \A f \in DOMAIN players :
                  /\ DOMAIN players'[f] = {p \in DOMAIN players[f] : p \notin removed}
                  /\ \A p \in DOMAIN players'[f] : players'[f][p] = players[f][p]
            /\ referees' = referees
            /\ ball' = ball]_vars

\* C3 witness: the filter removed an id, kept another one with its record, and the
\* referees and ball collections are populated.
C3_Witness ==
    /\ pc = "camera_movement"
    /\ filtered_by_overlap \cup filtered_by_color # {}
    /\ \E f \in DOMAIN players : \E p \in DOMAIN players[f] :
          /\ p \notin filtered_by_overlap \cup filtered_by_color
          /\ players[f][p] = unfiltered_players[f][p]
    /\ \E f \in DOMAIN unfiltered_players :
          DOMAIN unfiltered_players[f] \cap (filtered_by_overlap \cup filtered_by_color) # {}
    /\ \E f \in DOMAIN referees : referees[f] # EmptyDict
    /\ \E f \in DOMAIN ball : ball[f] # EmptyDict

\* the class-corrected detections of list index k, as the code derives them from the frame
CorrectedDetections(k) ==
    [i \in DOMAIN Predict(frames[k]) |->
        IF cls_names[Predict(frames[k])[i].class_id] = "goalkeeper"
        THEN [Predict(frames[k])[i] EXCEPT !.class_id = 2]
        ELSE Predict(frames[k])[i]]

\* C4: the tracker is updated once per frame, for frames 0, 1, ... in increasing order,
\* each time with the detections of that frame only, and what it answers for frame k is
\* written at index k; when get_object_tracks returns every frame has been visited.
C4_CausalOrder ==
    /\ Len(tracker_seen) = frame_num
    /\ Len(players) = frame_num /\ Len(referees) = frame_num
    /\ \A k \in DOMAIN tracker_seen :
          /\ tracker_seen[k].frame = k - 1
          /\ tracker_seen[k].dets = CorrectedDetections(k)
          /\ \A id \in DOMAIN players[k] :
                \E i \in DOMAIN tracker_seen[k].dets :
                    /\ tracker_seen[k].dets[i].bbox = players[k][id].bbox
                    /\ tracker_seen[k].dets[i].class_id = 2
          /\ \A id \in DOMAIN referees[k] :
                \E i \in DOMAIN tracker_seen[k].dets :
                    /\ tracker_seen[k].dets[i].bbox = referees[k][id].bbox
                    /\ tracker_seen[k].dets[i].class_id = 3
    /\ Tracked => frame_num = Len(frames)

\* C4 witness: a three-frame run is over, the first and last frame differ, and players
\* and referees were written.
C4_Witness ==
    /\ Tracked
    /\ Len(tracker_seen) = 3
    /\ tracker_seen[1].dets # tracker_seen[3].dets
    /\ tracker_seen[2].dets # tracker_seen[3].dets
    /\ players[1] # EmptyDict
    /\ referees[3] # EmptyDict

\* C5: the tracker never receives a goalkeeper-class detection, and every detection the
\* tracker emits for a detection the model labelled goalkeeper is written into players
\* of that frame and not into referees.
C5_GoalkeeperRemap ==
    /\ \A k \in DOMAIN tracker_seen : \A i \in DOMAIN tracker_seen[k].dets :
          cls_names[tracker_seen[k].dets[i].class_id] # "goalkeeper"
    /\ (frame_num > 0 /\ pc \in {"track_frame", "add_position_to_tracks"}) =>
          \A i \in DOMAIN detections[frame_num] :
              cls_names[detections[frame_num][i].class_id] = "goalkeeper" =>
                  \A t \in DOMAIN detections_with_tracks :
                      detections_with_tracks[t].bbox = detections[frame_num][i].bbox =>
                          /\ detections_with_tracks[t].tracker_id \in DOMAIN players[frame_num]
                          /\ players[frame_num][detections_with_tracks[t].tracker_id].bbox
                                = detections[frame_num][i].bbox
                          /\ detections_with_tracks[t].tracker_id \notin DOMAIN referees[frame_num]

\* C5 witness: the frame just tracked holds a goalkeeper detection, the tracker emitted
\* it, and it sits in players.
C5_Witness ==
    /\ frame_num > 0 /\ pc \in {"track_frame", "add_position_to_tracks"}
    /\ \E i \in DOMAIN detections[frame_num] : \E t \in DOMAIN detections_with_tracks :
          /\ cls_names[detections[frame_num][i].class_id] = "goalkeeper"
          /\ detections_with_tracks[t].bbox = detections[frame_num][i].bbox
          /\ detections_with_tracks[t].tracker_id \in DOMAIN players[frame_num]

\* C6: from the return of get_object_tracks on, through add_position_to_tracks,
\* filter_referees and interpolate_ball_positions, players, referees and ball each hold
\* one entry per input frame; a frame without detections holds an empty mapping in each
\* (in ball until the interpolation fills it).
C6_FrameCount ==
    Tracked =>
        /\ Len(players) = Len(frames)
        /\ Len(referees) = Len(frames)
        /\ Len(ball) = Len(frames)
        /\ \A f \in DOMAIN detections :
              detections[f] = <<>> =>
                  /\ players[f] = EmptyDict
                  /\ referees[f] = EmptyDict
                  /\ ~Called("interpolate_ball_positions") => ball[f] = EmptyDict

\* C6 witness: a three-frame video whose first frame has no detections went through all
\* four stages, the interpolation having filled a leading gap.
C6_Witness ==
    /\ Interpolated
    /\ Len(frames) = 3
    /\ detections[1] = <<>>
    /\ interpolation_tracker[1] = 1
    /\ Len(ball) = 3 /\ Len(players) = 3 /\ Len(referees) = 3

\* C7: every per-frame entry of ball has at most one key, and that key is 1.
C7_SingleBall ==
    \A f \in DOMAIN ball : DOMAIN ball[f] \subseteq {1}

\* C7 witness: after the interpolation, a frame with two ball detections of confidence
\* 0.30 holds the single key 1.
C7_Witness ==
    /\ Interpolated
    /\ \E f \in DOMAIN ball :
          /\ DOMAIN ball[f] = {1}
          /\ Cardinality({i \in DOMAIN detections[f] :
                 detections[f][i].class_id = 0 /\ detections[f][i].confidence >= 30}) >= 2

\* frame f holds a ball-class detection of confidence at least 0.30
HasConfidentBall(f) ==
    \E i \in DOMAIN detections[f] :
        detections[f][i].class_id = 0 /\ detections[f][i].confidence >= 30

\* C8: after get_object_tracks (and until the ball collection is interpolated) ball has an
\* entry at frame f exactly when the raw detections of f hold a ball-class detection of
\* confidence >= 0.30, whatever the tracker emitted.
C8_BallCutoff ==
    (Tracked /\ ~Called("interpolate_ball_positions")) =>
        \A f \in DOMAIN ball : (ball[f] # EmptyDict) <=> HasConfidentBall(f)

\* C8 witness: get_object_tracks has just returned; a frame whose only ball detection has
\* confidence 0.29 has no ball entry, and the last frame, with a ball of confidence exactly
\* 0.30 that the tracker did not emit, has one.
C8_Witness ==
    /\ pc = "add_position_to_tracks"
    /\ Len(ball) >= 2
    /\ \E f \in DOMAIN ball :
          /\ \E i \in DOMAIN detections[f] :
                detections[f][i].class_id = 0 /\ detections[f][i].confidence = 29
          /\ ball[f] = EmptyDict
    /\ \E i \in DOMAIN detections[Len(ball)] :
          detections[Len(ball)][i].class_id = 0 /\ detections[Len(ball)][i].confidence = 30
    /\ \A t \in DOMAIN detections_with_tracks : detections_with_tracks[t].class_id # 0
    /\ ball[Len(ball)] # EmptyDict

\* C9 as stated: the ball interpolation is invoked before the referee purge.
C9_InterpolateBeforeFilter ==
    Called("filter_referees") =>
        /\ Called("interpolate_ball_positions")
        /\ CallIndex("interpolate_ball_positions") < CallIndex("filter_referees")

\* C9 amended: the core stages are invoked in the order get_object_tracks,
\* add_position_to_tracks, filter_referees, interpolate_ball_positions, each at most once;
\* the purge precedes the interpolation, and the camera-movement collaborator is handed
\* the track store between the two.
C9_StageOrder ==
    /\ \A i, j \in DOMAIN calls : calls[i] = calls[j] => i = j
    /\ Called("add_position_to_tracks") =>
          /\ Called("get_object_tracks")
          /\ CallIndex("get_object_tracks") < CallIndex("add_position_to_tracks")
    /\ Called("filter_referees") =>
          /\ Called("add_position_to_tracks")
          /\ CallIndex("add_position_to_tracks") < CallIndex("filter_referees")
    /\ Called("camera_movement") =>
          /\ Called("filter_referees")
          /\ CallIndex("filter_referees") < CallIndex("camera_movement")
    /\ Called("interpolate_ball_positions") =>
          /\ Called("camera_movement")
          /\ CallIndex("camera_movement") < CallIndex("interpolate_ball_positions")
    /\ pc = "done" => Called("interpolate_ball_positions")

\* C9 witness: a run that ended normally after all four core stages.
C9_Witness ==
    /\ pc = "done"
    /\ Called("get_object_tracks") /\ Called("add_position_to_tracks")
    /\ Called("filter_referees") /\ Called("interpolate_ball_positions")
    /\ Len(frames) = 3

\* every record of a players or referees collection carries the bottom-centre position
HasFootPositions(object_tracks) ==
    \A f \in DOMAIN object_tracks : \A id \in DOMAIN object_tracks[f] :
        /\ "position" \in DOMAIN object_tracks[f][id]
        /\ object_tracks[f][id].position =
              <<(object_tracks[f][id].bbox[1] + object_tracks[f][id].bbox[3]) \div 2,
                object_tracks[f][id].bbox[4]>>

\* every ball record carries the bbox-centre position
HasCenterPositions(ball_tracks) ==
    \A f \in DOMAIN ball_tracks : \A id \in DOMAIN ball_tracks[f] :
        /\ "position" \in DOMAIN ball_tracks[f][id]
        /\ ball_tracks[f][id].position =
              <<(ball_tracks[f][id].bbox[1] + ball_tracks[f][id].bbox[3]) \div 2,
                (ball_tracks[f][id].bbox[2] + ball_tracks[f][id].bbox[4]) \div 2>>

C15_FatalDetectorFailure ==
    /\ fault \in {"ultralytics_import", "model_load"}
         => /\ pc \in {"tracker_init", "error"}
            /\ calls = <<>>
            /\ players = <<>> /\ referees = <<>> /\ ball = <<>>
    /\ (fault = "predict" /\ Len(frames) > 0)
         => /\ pc \in {"tracker_init", "get_object_tracks", "error"}
            /\ \A k \in DOMAIN calls : calls[k] = "get_object_tracks"
            /\ detections = <<>>
            /\ players = <<>> /\ referees = <<>> /\ ball = <<>>

C15_Witness ==
    /\ pc = "error"
    /\ fault = "ultralytics_import"
    /\ Len(frames) = 1
    /\ calls = <<>>

\* ------------------------------------------------------------------------- C11

\* the input sequence of the call has a direct ball detection at index f
DetectedAt(f) ==
    /\ BallId \in DOMAIN call.ball_tracks[f]
    /\ "bbox" \in DOMAIN call.ball_tracks[f][BallId]

\* interpolate_ball_positions has run on a sequence with at least one detection
InterpolatedSome ==
    /\ call.fn = "interpolate_ball_positions"
    /\ outcome # Pending
    /\ \E f \in DOMAIN call.ball_tracks : DetectedAt(f)

\* C11  Dense ball output: on a ball sequence of length N with at least one detection,
\* interpolate_ball_positions returns a sequence of length N whose every index holds
\* exactly {1: {"bbox": four numbers}}, and every frame with a direct detection keeps
\* its detected bbox.
C11_DenseBallOutput ==
    InterpolatedSome =>
        /\ outcome.status = "returned"
        /\ Len(outcome.value) = Len(call.ball_tracks)
        /\ \A f \in DOMAIN call.ball_tracks :
              /\ DOMAIN outcome.value[f] = {BallId}
              /\ DOMAIN outcome.value[f][BallId] = {"bbox"}
              /\ Len(outcome.value[f][BallId].bbox) = 4
              /\ \A c \in 1..4 : outcome.value[f][BallId].bbox[c] \in Int
              /\ DetectedAt(f) =>
                    outcome.value[f][BallId].bbox = call.ball_tracks[f][BallId].bbox

C11_Witness ==
    /\ InterpolatedSome
    /\ outcome.status = "returned"
    /\ Len(call.ball_tracks) >= 4
    /\ ~DetectedAt(1)
    /\ \E f \in DOMAIN call.ball_tracks : DetectedAt(f) /\ f < Len(call.ball_tracks)
    /\ ~DetectedAt(Len(call.ball_tracks))

\* ------------------------------------------------------------------------- C12

\* the detected frames of the input before and after index f
KnownBefore(f) == {a \in DOMAIN call.ball_tracks : a < f /\ DetectedAt(a)}

KnownAfter(f) == {b \in DOMAIN call.ball_tracks : b > f /\ DetectedAt(b)}

NearestBefore(f) == CHOOSE a \in KnownBefore(f) : \A y \in KnownBefore(f) : y <= a

NearestAfter(f) == CHOOSE b \in KnownAfter(f) : \A y \in KnownAfter(f) : b <= y

\* coordinate c of the detected bbox of input frame f, and of the returned bbox
InputCoord(f, c) == call.ball_tracks[f][BallId].bbox[c]

OutputCoord(f, c) == outcome.value[f][BallId].bbox[c]

\* C12  Interpolation values: every coordinate of a missing frame f between its nearest
\* known frames a < f < b is v_a + (v_b - v_a) * (f - a) / (b - a), each coordinate on
\* its own (frame 5 of the eleven-frame example gets x1 = 50); every missing frame
\* before the first known frame gets the first known bbox.
C12_InterpolationValues ==
    (InterpolatedSome /\ outcome.status = "returned") =>
        /\ \A f \in DOMAIN call.ball_tracks : \A c \in 1..4 :
              (~DetectedAt(f) /\ KnownAfter(f) # {}) =>
                  IF KnownBefore(f) # {}
                  THEN LET a == NearestBefore(f)
                           b == NearestAfter(f)
                       IN  (OutputCoord(f, c) - InputCoord(a, c)) * (b - a)
                               = (InputCoord(b, c) - InputCoord(a, c)) * (f - a)
                  ELSE OutputCoord(f, c) = InputCoord(NearestAfter(f), c)
        /\ call.ball_tracks = ExampleBallTracks =>
              outcome.value[6][BallId].bbox = <<50, 0, 60, 10>>

C12_Witness ==
    /\ InterpolatedSome
    /\ outcome.status = "returned"
    /\ ~DetectedAt(1)
    /\ \E f \in DOMAIN call.ball_tracks :
          /\ ~DetectedAt(f)
          /\ KnownBefore(f) # {}
          /\ KnownAfter(f) # {}
          /\ NearestAfter(f) - NearestBefore(f) >= 3
          /\ \A c \in 1..4 : InputCoord(NearestBefore(f), c) # InputCoord(NearestAfter(f), c)

\* ------------------------------------------------------------------------- C13

\* C13  was_interpolated flags: after interpolate_ball_positions on a sequence of length
\* N, whether it returned or raised, interpolation_tracker has length N and holds 1 at
\* exactly the frames without a direct detection in the input and 0 at the others.
C13_InterpolationFlags ==
    (call.fn = "interpolate_ball_positions" /\ outcome # Pending) =>
        /\ Len(interpolation_tracker) = Len(call.ball_tracks)
        /\ \A f \in DOMAIN call.ball_tracks :
              /\ interpolation_tracker[f] \in {0, 1}
              /\ interpolation_tracker[f] = 1 <=> ~DetectedAt(f)

C13_Witness ==
    /\ call.fn = "interpolate_ball_positions"
    /\ outcome.status = "returned"
    /\ \E f, g \in DOMAIN call.ball_tracks :
          /\ interpolation_tracker[f] = 1
          /\ interpolation_tracker[g] = 0
          /\ outcome.value[f] = outcome.value[g]

\* ------------------------------------------------------------------------- C14

RECURSIVE Flatten(_)
\* the batches of a log laid end to end
Flatten(batches) ==
    IF batches = <<>> THEN <<>> ELSE Head(batches) \o Flatten(Tail(batches))

\* list indices 0 .. n-1 in ascending order
Ascending(n) == [k \in 1..n |-> k - 1]

\* C14  Batch independence: whatever the frame count and the batch size, detect_frames
\* hands the frames to the model in contiguous batches taken in ascending order, every
\* index exactly once, every batch but the last of the full batch size; it returns one
\* result per frame, result i being the detection of frame i, the same list as with
\* batch size 1.
C14_BatchIndependence ==
    (call.fn = "detect_frames" /\ outcome # Pending) =>
        /\ outcome.batch_size >= 1
        /\ \A j \in DOMAIN outcome.submitted :
              /\ Len(outcome.submitted[j]) >= 1
              /\ Len(outcome.submitted[j]) <= outcome.batch_size
              /\ j < Len(outcome.submitted) => Len(outcome.submitted[j]) = outcome.batch_size
        /\ outcome.status = "running" =>
              /\ Flatten(outcome.submitted) = Ascending(Min(outcome.i, Len(call.frames)))
              /\ Len(outcome.detections) = Len(Flatten(outcome.submitted))
        /\ outcome.status = "returned" =>
              /\ Flatten(outcome.submitted) = Ascending(Len(call.frames))
              /\ Len(outcome.value) = Len(call.frames)
              /\ \A k \in DOMAIN call.frames : outcome.value[k] = Predict(call.frames[k])
              /\ outcome.value = DetectFrom(call.frames, 0, 1)

C14_Witness ==
    /\ call.fn = "detect_frames"
    /\ outcome.status = "returned"
    /\ Len(call.frames) = 5
    /\ outcome.batch_size = 2
    /\ Len(outcome.submitted) = 3
    /\ \A k \in 1..4 : call.frames[k] # call.frames[k + 1]

\* ------------------------------------------------------------------ C16, C17

\* a box of positive width and height
NonDegenerate(b) == b[1] < b[3] /\ b[2] < b[4]

\* two IoU values are the same number
SameRatio(p, q) == p[1] * q[2] = q[1] * p[2]

\* calculate_iou has returned
IouReturned == call.fn = "calculate_iou" /\ outcome.status = "returned"

\* C16  calculate_iou is symmetric: for every pair of boxes, degenerate ones included,
\* the value returned for (a, b) is the value of calculate_iou(b, a).
C16_IouSymmetric ==
    IouReturned => SameRatio(outcome.value, calculate_iou(call.bbox2, call.bbox1))

C16_Witness ==
    /\ IouReturned
    /\ outcome.value[1] > 0
    /\ NonDegenerate(call.bbox1)
    /\ call.bbox1[3] - call.bbox1[1] # call.bbox2[3] - call.bbox2[1]
    /\ call.bbox1[4] - call.bbox1[2] # call.bbox2[4] - call.bbox2[2]

\* C17  calculate_iou range and identity: for boxes of positive width and height the
\* value lies in [0, 1] (the intersection never exceeds the union and the union is
\* positive), and calculate_iou(a, a) = 1.
C17_IouRange ==
    (IouReturned /\ NonDegenerate(call.bbox1) /\ NonDegenerate(call.bbox2)) =>
        /\ outcome.value[2] > 0
        /\ 0 <= outcome.value[1]
        /\ outcome.value[1] <= outcome.value[2]
        /\ call.bbox1 = call.bbox2 => outcome.value[1] = outcome.value[2]

C17_Witness ==
    /\ IouReturned
    /\ NonDegenerate(call.bbox1)
    /\ call.bbox1 = call.bbox2
    /\ outcome.value[1] = outcome.value[2]
    /\ outcome.value[1] > 1

\* ------------------------------------------------------------------------- C18

\* black, yellow, red, blue, orange
Palette == {<<0, 0, 0>>, <<255, 255, 0>>, <<255, 0, 0>>, <<0, 0, 255>>, <<255, 140, 0>>}

\* squared Euclidean distance between two RGB colours
SquaredDistance(c, p) ==
    (c[1] - p[1]) * (c[1] - p[1]) + (c[2] - p[2]) * (c[2] - p[2])
        + (c[3] - p[3]) * (c[3] - p[3])

\* C18  Colour match is strict: is_referee_color(c) is true exactly when c is at a
\* squared distance below 1600 (distance below 40) from one of the five palette
\* colours; a colour whose nearest palette colour is at distance exactly 40 is no match.
C18_StrictColourMatch ==
    (call.fn = "is_referee_color" /\ outcome.status = "returned") =>
        /\ outcome.value <=> \E p \in Palette : SquaredDistance(call.color, p) < 1600
        /\ ( /\ \E p \in Palette : SquaredDistance(call.color, p) = 1600
             /\ \A p \in Palette : SquaredDistance(call.color, p) >= 1600 )
           => outcome.value = FALSE

C18_Witness ==
    /\ call.fn = "is_referee_color"
    /\ outcome.status = "returned"
    /\ outcome.value = FALSE
    /\ SquaredDistance(call.color, <<255, 140, 0>>) = 1600
    /\ call.color[1] # 255

\* ------------------------------------------------------------------------- C19

\* the frames of the call in which the shirt colour of id p is sampled
SampledFrames(p) ==
    {f \in DOMAIN call.players :
        /\ f <= Len(call.frames)
        /\ p \in DOMAIN call.players[f]
        /\ SampleShirt(call.frames[f], call.players[f][p].bbox) # <<>>}

\* those of them whose sample is a referee colour
MatchingFrames(p) ==
    {f \in SampledFrames(p) :
        \E c \in Palette : SquaredDistance(call.frames[f].pixels, c) < 1600}

\* the ids the call examines
Examined ==
    {p \in UNION {DOMAIN call.players[f] : f \in DOMAIN call.players} :
        call.player_ids_to_check = <<>> \/ p \in call.player_ids_to_check[1]}

\* C19  Temporal-frequency rule: with n the number of frames in which the shirt colour
\* of an examined id was sampled, matching or not, and m the number of referee-coloured
\* ones among them, the closing loop of filter_by_color_analysis flags the id exactly
\* when n >= 3 and m / n > 0.60; 2 matches of 5 samples and 3 of 10 do not flag.
C19_FrequencyRule ==
    (call.fn = "filter_by_color_analysis" /\ outcome.status = "returned") =>
        \A p \in Examined :
            LET n == Cardinality(SampledFrames(p))
                m == Cardinality(MatchingFrames(p))
            IN  p \in outcome.by_frequency <=> (n >= 3 /\ 10 * m > 6 * n)

\* ------------------------------------------------------------------------- C20

\* player p and some referee of the same frame f of the call have an IoU above 0.30
OverThresholdAt(f, p) ==
    /\ p \in DOMAIN call.players[f]
    /\ \E r \in DOMAIN call.referees[f] :
          LET iou == calculate_iou(call.players[f][p].bbox, call.referees[f][r].bbox)
          IN  10 * iou[1] > 3 * iou[2]

\* player p and some referee of the same frame f have an IoU of exactly 0.30
AtThresholdAt(f, p) ==
    /\ p \in DOMAIN call.players[f]
    /\ \E r \in DOMAIN call.referees[f] :
          LET iou == calculate_iou(call.players[f][p].bbox, call.referees[f][r].bbox)
          IN  10 * iou[1] = 3 * iou[2]

\* C20  Stage A exactness: filter_by_referee_tracks returns exactly the player ids that
\* have, in some frame, a referee of that same frame with an IoU strictly above 0.30 (an
\* IoU of exactly 0.30 and a referee of another frame do not flag), and the track store
\* is after the call what it was before.
C20_StageAExact ==
    (call.fn = "filter_by_referee_tracks" /\ outcome.status = "returned") =>
        /\ \A p \in {1, 2} :
              p \in outcome.value <=> \E f \in DOMAIN call.players : OverThresholdAt(f, p)
        /\ outcome.value \subseteq {1, 2}
        /\ outcome.players = call.players
        /\ outcome.referees = call.referees

C20_Witness ==
    /\ call.fn = "filter_by_referee_tracks"
    /\ outcome.status = "returned"
    /\ outcome.value = {2}
    /\ \E f \in DOMAIN call.players : AtThresholdAt(f, 1)
    /\ \E f, g \in DOMAIN call.players :
          /\ f # g
          /\ 1 \in DOMAIN call.players[f]
          /\ call.players[f][1].bbox = BoxP
          /\ 5 \in DOMAIN call.referees[g]
          /\ call.referees[g][5].bbox = BoxR

\* ------------------------------------------------------------------------- C21

\* filter_by_color_analysis has returned
ColorAnalysisReturned == call.fn = "filter_by_color_analysis" /\ outcome.status = "returned"

\* C21 as stated: among the inputs filter_by_color_analysis is called with there is one
\* for which the closing frequency loop adds an id that no single-frame match had added.
C21_FrequencyFlagsNewId ==
    ColorAnalysisReturned =>
        \E v \in ShirtVideos : \E check \in {<<>>, <<{1}>>} :
            LET acc == ColorFrames([ids |-> {}, colors |-> EmptyDict],
                                   [f \in DOMAIN v |-> v[f].frame],
                                   [f \in DOMAIN v |-> v[f].players], check, 1)
            IN  ConsistentIds(acc.colors) \ acc.ids # {}

\* C21  The closing frequency loop of filter_by_color_analysis adds no id: every id it
\* flags has at least three recorded samples, each recorded in the frame whose direct
\* match had already flagged the id, and the returned set is the set of direct matches.
C21_FrequencyAddsNothing ==
    ColorAnalysisReturned =>
        /\ outcome.by_frequency \subseteq outcome.direct
        /\ outcome.value = outcome.direct
        /\ \A p \in outcome.by_frequency : Cardinality(MatchingFrames(p)) >= 3

C21_Witness ==
    /\ ColorAnalysisReturned
    /\ outcome.by_frequency = {1}
    /\ Cardinality(SampledFrames(1)) > Cardinality(MatchingFrames(1))

\* ------------------------------------------------------------------------- C22

\* the ids the team_colour branch of Stage B flags on the store filter_referees was given
FlaggedByTeamColour ==
    {p \in UNION {DOMAIN unfiltered_players[f] : f \in DOMAIN unfiltered_players} :
        \E f \in DOMAIN unfiltered_players :
            /\ p \in DOMAIN unfiltered_players[f]
            /\ p \in filtered_by_overlap
            /\ "team_colour" \in DOMAIN unfiltered_players[f][p]
            /\ is_referee_color(unfiltered_players[f][p].team_colour)}

\* C22  In process_video the referee filter runs strictly before the team-colour
\* assignment: when filter_referees executes, no player record has a team_colour field,
\* and the team_colour branch of Stage B flags no id.
C22_FilterBeforeTeamColour ==
    /\ Called("team_assignment") =>
          /\ Called("filter_referees")
          /\ CallIndex("filter_referees") < CallIndex("team_assignment")
    /\ ~Called("team_assignment") =>
          \A f \in DOMAIN players : \A p \in DOMAIN players[f] :
              "team_colour" \notin DOMAIN players[f][p]
    /\ Called("filter_referees") =>
          /\ \A f \in DOMAIN unfiltered_players : \A p \in DOMAIN unfiltered_players[f] :
                "team_colour" \notin DOMAIN unfiltered_players[f][p]
          /\ FlaggedByTeamColour = {}

\* a player that overlaps a referee reached the filter without a team colour, and a
\* player the filter kept got a referee colour as its team colour afterwards
C22_Witness ==
    /\ Called("team_assignment")
    /\ filtered_by_overlap # {}
    /\ \E f \in DOMAIN players : \E p \in DOMAIN players[f] :
          /\ "team_colour" \in DOMAIN players[f][p]
          /\ is_referee_color(players[f][p].team_colour)

\* ------------------------------------------------------------------------- C23

\* the place of frame f in its run of consecutive interpolated frames: 0 for a detected
\* frame, 1 for the first interpolated frame after a detected one or at the start
RunPlace(f) ==
    IF interpolation_tracker[f] = 0 THEN 0
    ELSE LET detected == {g \in 1..f : interpolation_tracker[g] = 0}
         IN  IF detected = {} THEN f
             ELSE f - (CHOOSE g \in detected : \A h \in detected : h <= g)

\* C23  Ball display suppression: with the ball class selected, draw_annotations draws
\* the ball in every directly detected frame and in each of the first 25 frames of a
\* run of interpolated frames, and in no later frame of the run (the 26th and on),
\* until the next directly detected frame starts the count again.
C23_BallSuppression ==
    (call.fn = "draw_annotations" /\ outcome # Pending /\ call.ball_selected) =>
        \A f \in DOMAIN outcome.ball_drawn :
            /\ interpolation_tracker[f] = 0 => outcome.ball_drawn[f]
            /\ (interpolation_tracker[f] = 1 /\ RunPlace(f) <= 25) => outcome.ball_drawn[f]
            /\ (interpolation_tracker[f] = 1 /\ RunPlace(f) >= 26) => ~outcome.ball_drawn[f]

\* a run of 26 ends undrawn, the detected frame after it and the first frame of the next
\* run are drawn again
C23_Witness ==
    /\ call.fn = "draw_annotations"
    /\ outcome.status = "returned"
    /\ call.ball_selected
    /\ \E f \in DOMAIN outcome.ball_drawn :
          /\ RunPlace(f) = 25 /\ outcome.ball_drawn[f]
          /\ f + 3 <= Len(outcome.ball_drawn)
          /\ RunPlace(f + 1) = 26 /\ ~outcome.ball_drawn[f + 1]
          /\ RunPlace(f + 2) = 0 /\ outcome.ball_drawn[f + 2]
          /\ RunPlace(f + 3) = 1 /\ outcome.ball_drawn[f + 3]

\* ------------------------------------------------------------------------- C24

\* width and height of the overlap of the two boxes of the call, negative when apart
OverlapWidth == Min(call.bbox1[3], call.bbox2[3]) - Max(call.bbox1[1], call.bbox2[1])

OverlapHeight == Min(call.bbox1[4], call.bbox2[4]) - Max(call.bbox1[2], call.bbox2[2])

\* the boxes are apart, touch along an edge or at a corner, or one of them has no area
NoCommonArea ==
    \/ OverlapWidth <= 0
    \/ OverlapHeight <= 0
    \/ ~NonDegenerate(call.bbox1)
    \/ ~NonDegenerate(call.bbox2)

\* C24  calculate_iou returns 0, and divides by no zero, for every pair of boxes that do
\* not overlap, that only touch along an edge or at a corner, or of which one or both
\* have zero area.  A returned pair with denominator 0 would be the division error.
C24_IouZeroNoDivisionError ==
    (IouReturned /\ NoCommonArea) =>
        /\ outcome.value[2] # 0
        /\ outcome.value[1] = 0

\* the same zero-area box twice: intersection and union are both 0
C24_Witness ==
    /\ IouReturned
    /\ call.bbox1 = call.bbox2
    /\ call.bbox1[1] = call.bbox1[3]
    /\ call.bbox1[2] < call.bbox1[4]
    /\ outcome.value[1] = 0

\* ------------------------------------------------------------------------- C25

\* filter_referees has returned from its first application
FilteredOnce ==
    call.fn = "filter_referees" /\ outcome.status = "returned" /\ outcome.applications = 1

\* frame f of the store of the call has dicts for its players and for its referees
WellFormedAt(f) == 0 \notin DOMAIN call.players[f] /\ 0 \notin DOMAIN call.referees[f]

\* the ids with a referee of the same well-formed frame at an IoU above 0.30
OverlappingIds ==
    {p \in {1, 2} : \E f \in DOMAIN call.players :
        /\ WellFormedAt(f)
        /\ p \in DOMAIN call.players[f]
        /\ \E r \in DOMAIN call.referees[f] :
              LET iou == calculate_iou(call.players[f][p].bbox, call.referees[f][r].bbox)
              IN  10 * iou[1] > 3 * iou[2]}

\* those of them whose shirt is referee-coloured in a frame whose players entry is a dict
ColouredIds ==
    {p \in OverlappingIds : \E f \in DOMAIN call.players :
        /\ 0 \notin DOMAIN call.players[f]
        /\ p \in DOMAIN call.players[f]
        /\ \E c \in Palette : SquaredDistance(call.frames[f].pixels, c) < 1600}

\* C25  Defensive skip: a per-frame entry of players or referees that is no mapping makes
\* filter_by_referee_tracks, filter_by_color_analysis and the purge loop pass over that
\* frame; filter_referees returns, the overlaps of the well-formed frames are found, the
\* flagged ids are deleted from every frame whose players entry is a mapping, and an
\* entry that is no mapping is handed back as it was.
C25_DefensiveSkip ==
    FilteredOnce =>
        /\ outcome.filtered_by_overlap = OverlappingIds
        /\ outcome.filtered_by_color = ColouredIds
        /\ Len(outcome.players) = Len(call.players)
        /\ \A f \in DOMAIN call.players :
              IF 0 \in DOMAIN call.players[f]
              THEN outcome.players[f] = call.players[f]
              ELSE /\ DOMAIN outcome.players[f] = (DOMAIN call.players[f]) \ OverlappingIds
                   /\ \A p \in DOMAIN outcome.players[f] :
                         outcome.players[f][p] = call.players[f][p]

\* a frame whose players entry is no dict lies between an overlap and a later frame the
\* flagged id is deleted from
C25_Witness ==
    /\ FilteredOnce
    /\ Len(call.players) = 3
    /\ 1 \in outcome.filtered_by_overlap
    /\ WellFormedAt(1)
    /\ call.players[2] = NotAMapping
    /\ outcome.players[2] = NotAMapping
    /\ WellFormedAt(3)
    /\ 1 \in DOMAIN call.players[3]
    /\ 1 \notin DOMAIN outcome.players[3]

\* ------------------------------------------------------------------------- C27

\* C27  filter_referees is idempotent: applied to the store it returned, with the same
\* frames, it deletes no further player id; players and referees are after the second
\* application what they were after the first.
C27_FilterIdempotent ==
    (call.fn = "filter_referees" /\ outcome.status = "returned" /\ outcome.applications = 2) =>
        /\ outcome.players = outcome.before
        /\ outcome.referees = call.referees
        /\ outcome.filtered_by_overlap = {}
        /\ outcome.filtered_by_color = {}

C27_Witness ==
    /\ call.fn = "filter_referees"
    /\ outcome.status = "returned"
    /\ outcome.applications = 2
    /\ outcome.players # call.players
    /\ \E f \in DOMAIN outcome.players :
          /\ 0 \notin DOMAIN outcome.players[f]
          /\ outcome.players[f] # EmptyDict
          /\ call.referees[f] # EmptyDict

\* ------------------------------------------------------------------------- C26

\* the device the ordered probe selects in the environment of this run
ProbedInOrder ==
    IF fault = "torch_import" THEN "cpu"
    ELSE IF call.cuda THEN "cuda"
    ELSE IF call.mps THEN "mps"
    ELSE "cpu"

\* process_video is past get_object_tracks, which returned
PastDetection ==
    /\ call.fn = "process_video"
    /\ Tracked
    /\ Called("get_object_tracks")
    /\ ~(pc = "error" /\ Len(calls) = 1)

\* C26 as stated: the device is probed exactly once in a run of process_video and the
\* answer is reused.
C26_ProbedOnce ==
    PastDetection => Len(outcome.probes) = 1

\* C26  Device selection: every probe answers "cuda" if available, else "mps" if
\* available, else "cpu".  Nothing is cached: get_device() is called once by
\* detect_frames, ahead of the batch loop, and once more by get_object_tracks for its log
\* line when verbose, so a run probes once when quiet and twice when verbose, whatever
\* the number of frames, and no stage after get_object_tracks probes again.
C26_ProbeOrderAndCount ==
    call.fn = "process_video" =>
        /\ \A k \in DOMAIN outcome.probes : outcome.probes[k] = ProbedInOrder
        /\ ~Called("get_object_tracks") => outcome.probes = <<>>
        /\ PastDetection => Len(outcome.probes) = IF call.verbose THEN 2 ELSE 1
        /\ Len(outcome.probes) <= 2

C26_Witness ==
    /\ call.fn = "process_video"
    /\ pc = "done"
    /\ Len(frames) = 1
    /\ call.verbose
    /\ ~call.cuda
    /\ call.mps
    /\ outcome.probes = <<"mps", "mps">>

\* ------------------------------------------------------------------------- C28

\* C28  Trailing gap policy: every frame after the last directly detected frame gets
\* exactly the bbox of that last detected frame, however long the run and whatever the
\* earlier detections were, and is marked 1 in interpolation_tracker.
C28_TrailingGapHeld ==
    (InterpolatedSome /\ outcome.status = "returned") =>
        \A f \in DOMAIN call.ball_tracks :
            (~DetectedAt(f) /\ KnownAfter(f) = {} /\ KnownBefore(f) # {}) =>
                /\ outcome.value[f][BallId].bbox
                     = call.ball_tracks[NearestBefore(f)][BallId].bbox
                /\ interpolation_tracker[f] = 1

\* two different detections, then a trailing run of two frames
C28_Witness ==
    /\ InterpolatedSome
    /\ outcome.status = "returned"
    /\ Len(call.ball_tracks) >= 4
    /\ LET n == Len(call.ball_tracks)
       IN  /\ ~DetectedAt(n) /\ ~DetectedAt(n - 1)
           /\ DetectedAt(n - 2) /\ DetectedAt(n - 3)
           /\ call.ball_tracks[n - 2] # call.ball_tracks[n - 3]
           /\ outcome.value[n] = call.ball_tracks[n - 2]


\* ---- C29: TaggingEngine ordering
\* an engine method has returned
EngineReturned(fn) ==
    call.fn = "TaggingEngine" /\ outcome.status = "returned" /\ outcome.fn = fn

\* (half, timestamp) of x is not greater than that of y
NotLater(x, y) == x.half < y.half \/ (x.half = y.half /\ x.timestamp <= y.timestamp)

HeldAt(id) == {i \in 1..Len(tags) : tags[i].id = id}

\* C30: driven by create_tag, remove_tag, remove_tag_by_index, clear_all_tags and
\* import_from_csv of rows with pairwise distinct ids TAG_n, the engine never holds two
\* tags of one id, the id create_tag has just issued is held by the new tag alone, and
\* next_tag_id comes back to 1 only in a step that leaves the list empty.
C30_IdsFresh ==
    /\ [](call.fn = "TaggingEngine" =>
            /\ \A i \in 1..Len(tags) : HeldAt(tags[i].id) = {i}
            /\ EngineReturned("create_tag") => Cardinality(HeldAt(outcome.value.id)) = 1)
    /\ [][(call.fn = "TaggingEngine" /\ next_tag_id # 1 /\ next_tag_id' = 1)
              => tags' = <<>>]_vars

\* create_tag has issued TAG_0004 into a list that holds the imported TAG_3 and TAG_0003
C30_Witness ==
    /\ EngineReturned("create_tag")
    /\ outcome.value.id = <<0, 0, 0, 4>>
    /\ \E i \in 1..Len(tags) : tags[i].id = <<3>>
    /\ \E i \in 1..Len(tags) : tags[i].id = <<0, 0, 0, 3>>

====
